---- MODULE Spec2Model ----
(***************************************************************************)
(* Resilient call layer of yomitoku-server: the retry engine               *)
(* (src/services/retry.ts), the response cache (AnalyzeCacheService) and   *)
(* the POST /analyze handler that puts the cache in front of the upstream. *)
(***************************************************************************)
EXTENDS Integers, Sequences, FiniteSets, Bags, TLC

VARIABLES
    \* ---- retry engine: one call of callWithRetry ----
    pc,          \* "idle" | "calling" (await fn()) | "sleeping" (await sleep) | "returned" | "raised"
    config,      \* the RetryConfig of the call
    attempt,     \* loop variable `attempt`
    delay,       \* local `delay`
    lastError,   \* local `lastError`
    waitTime,    \* argument of the pending sleep(waitTime)
    result,      \* value returned, or failure raised, by callWithRetry
    \* what the environment observes of the call
    calls,       \* number of invocations of fn
    failures,    \* number of invocations of fn that failed
    thrown,      \* the value fn failed with last
    fnValue,     \* the value fn resolved with
    waits,       \* the sleeps performed: <<[ms, hint]>>
    \* ---- response cache: one AnalyzeCacheService ----
    cacheMax,    \* LRUCache option max
    cacheTtl,    \* LRUCache option ttl (ms)
    entries,     \* stored entries, least recently used first: <<[key, value, expires]>>
    hits,        \* this.hits
    misses,      \* this.misses
    now,         \* the clock (ms)
    lastOp,      \* the last cache operation and what it returned
    \* ---- generateKey ----
    keyCalls,    \* the calls of generateKey made: <<[phrase, actionType, fullPhrase, key]>>
    \* ---- POST /analyze ----
    inflight,    \* the requests awaiting analyzeContent: a bag of [request, cacheKey, cachedResult]
    lastReply,   \* the request answered last and its reply
    upstreamCalls, \* number of calls of analyzeContent
    \* ---- createServiceFactory: the accessors created ----
    factory,     \* the constructor given to createServiceFactory, per accessor
    initialized, \* closure variable `initialized`, per accessor
    instance,    \* closure variable `instance`, per accessor
    factoryCalls, \* number of calls of the constructor, per accessor
    accessLog,   \* the accesses made: <<[accessor, threw, value]>>
    \* ---- categorizeApiError ----
    options,     \* the options the process classifies with: [context, isDevelopment]
    classifyCalls, \* the last two calls of categorizeApiError: <<[error, output]>>
    \* ---- the route handlers in front of the service, one request at a time ----
    nodeEnv,     \* process.env.NODE_ENV
    route,       \* the handler awaiting the service: its context, or "none"
    served,      \* number of requests answered
    serviceCalls, \* number of calls of a GeminiService method
    classifierRuns, \* times the classifier ran for the request
    response,    \* the response to the request
    \* ---- concurrent calls of callWithRetry ----
    callState    \* the locals of each call, and which calls slept when it began

retryVars == <<pc, config, attempt, delay, lastError, waitTime, result,
               calls, failures, thrown, fnValue, waits>>
cacheVars == <<cacheMax, cacheTtl, entries, hits, misses, now, lastOp>>
keyVars == <<keyCalls>>
handlerVars == <<inflight, lastReply, upstreamCalls>>
factoryVars == <<factory, initialized, instance, factoryCalls, accessLog>>
classifyVars == <<options, classifyCalls>>
routeVars == <<nodeEnv, route, served, serviceCalls, classifierRuns, response>>
concurrentVars == <<callState>>
vars == <<retryVars, cacheVars, keyVars, handlerVars, factoryVars, classifyVars, routeVars,
          concurrentVars>>

\* ------------------------------------------------------------------ bounds

\* largest maxRetries of a policy
MaxRetriesBound == 3

\* largest maxEntries of a cache
MaxEntriesBound == 2

\* get calls counted since the last clear or resetStats
MaxGets == 2

\* seconds the clock runs for
MaxTicks == 2

\* ------------------------------------------------------------- JS values

\* A field that is undefined, null or otherwise falsy is modelled by the falsy
\* value of its type: 0 for a status, "" for a text, <<>> for a header string.
NoStatus == 0
NoText == ""
NoHeader == <<>>

\* a || b, on statuses and on texts
OrStatus(a, b) == IF a # NoStatus THEN a ELSE b
OrText(a, b) == IF a # NoText THEN a ELSE b

Min(a, b) == IF a <= b THEN a ELSE b

\* ----------------------------------------------------- raw failure values

\* status values a raw failure may carry; 418 stands for an unrecognised one
PermanentCodes == {400, 401, 403, 404}
TransientCodes == {429, 500, 503}
StatusVals == PermanentCodes \cup TransientCodes \cup {418}

\* values of two fields that disagree are drawn from these
ConflictVals == {400, 429}

Messages == {"Bad request", "Request timeout"}
Names == {"ECONNRESET"}

\* retry-after header values, as strings of characters
RetryAfterVals == {<<"5">>}

NoFailure ==
    [kind |-> "none", statusCode |-> NoStatus, status |-> NoStatus, code |-> NoStatus,
     message |-> NoText, name |-> NoText, retryAfter |-> NoHeader]

\* fn rejects with undefined or null
Nullish == [NoFailure EXCEPT !.kind = "nullish"]

\* fn rejects with a value that is not an object (a string, a number)
Primitive == [NoFailure EXCEPT !.kind = "primitive"]

SetFields(e) == {f \in {"statusCode", "status", "code"} : e[f] # NoStatus}

\* objects fn may reject with: at most one status field set, or two set to
\* conflicting values; a name matters only when there is no message
ErrorObjects ==
    {e \in [kind : {"object"},
            statusCode : StatusVals \cup {NoStatus},
            status : StatusVals \cup {NoStatus},
            code : StatusVals \cup {NoStatus},
            message : Messages \cup {NoText},
            name : Names \cup {NoText},
            retryAfter : RetryAfterVals \cup {NoHeader}] :
        /\ \/ Cardinality(SetFields(e)) <= 1
           \/ /\ Cardinality(SetFields(e)) = 2
              /\ {e[f] : f \in SetFields(e)} = ConflictVals
        /\ (e.message # NoText) => (e.name = NoText)}

RawFailures == ErrorObjects \cup {Nullish, Primitive}

Values == {"success", "other"}

\* --------------------------------------------------------------- policies

DEFAULT_RETRY_CONFIG ==
    [maxRetries |-> 3, initialDelay |-> 1000, maxDelay |-> 32000,
     backoffMultiplier |-> 2]

RetryConfigs ==
    [maxRetries : 0..MaxRetriesBound,
     initialDelay : {1000},
     maxDelay : {3000, 32000},
     backoffMultiplier : {1, 2, 3}]

\* ------------------------------------------------- retry.ts, pure helpers

\* the fields read in the order status, statusCode, code
getErrorStatus_statusFirst(error) ==
    OrStatus(error.status, OrStatus(error.statusCode, error.code))

\* error.statusCode || error.status || error.code
getErrorStatus(error) == OrStatus(error.statusCode, OrStatus(error.status, error.code))

\* /timeout|ECONNRESET|ETIMEDOUT|ENOTFOUND/i .test(s), over the strings of the model
transientPatternsTest(s) == s \in {"Request timeout", "ECONNRESET"}

\* isTransientError with 503 left out of transientCodes
isTransientError_no503(error) ==
    LET status == getErrorStatus(error) IN
    IF status # NoStatus /\ status \in {429, 500}
    THEN TRUE
    ELSE transientPatternsTest(OrText(error.message, OrText(error.name, "")))

isTransientError(error) ==
    LET status == getErrorStatus(error) IN
    IF status # NoStatus /\ status \in TransientCodes
    THEN TRUE
    ELSE transientPatternsTest(OrText(error.message, OrText(error.name, "")))

\* isPermanentError with 404 left out of permanentCodes
isPermanentError_no404(error) ==
    LET status == getErrorStatus(error) IN
    IF status # NoStatus THEN status \in {400, 401, 403} ELSE FALSE

isPermanentError(error) ==
    LET status == getErrorStatus(error) IN
    IF status # NoStatus THEN status \in PermanentCodes ELSE FALSE

\* new ApplicationError(code, message, statusCode): Error(undefined) has message ''
ApplicationError(code, message, statusCode) ==
    [kind |-> "ApplicationError", code |-> code, message |-> message,
     statusCode |-> statusCode]

\* the TypeError of reading a property of undefined or null
TypeError ==
    [kind |-> "TypeError", code |-> NoText, message |-> "Cannot read properties",
     statusCode |-> NoStatus]

NoResult == [kind |-> "none", code |-> NoText, message |-> NoText, statusCode |-> NoStatus]

DigitValue(c) ==
    CASE c = "0" -> 0 [] c = "1" -> 1 [] c = "2" -> 2 [] c = "3" -> 3 [] c = "4" -> 4
      [] c = "5" -> 5 [] c = "6" -> 6 [] c = "7" -> 7 [] c = "8" -> 8 [] c = "9" -> 9
      [] OTHER -> -1

RECURSIVE parseIntFrom(_, _, _)
parseIntFrom(s, i, acc) ==
    IF i > Len(s) \/ DigitValue(s[i]) < 0
    THEN acc
    ELSE parseIntFrom(s, i + 1, acc * 10 + DigitValue(s[i]))

\* parseInt(s) of a string that starts with a digit: its leading digits
parseInt(s) == parseIntFrom(s, 1, 0)

\* lastError assigned on the first failure only
catchAssign_firstOnly(last, error) == IF last.kind = "none" THEN error ELSE last

\* line 57: lastError = error
catchAssign(last, error) == error

\* lines 60-64: the failure raised for a permanent error
permanentFailure(error) ==
    ApplicationError("API_ERROR", error.message, OrStatus(error.status, 500))

\* the loop left on a non-transient failure only
shouldBreak_noExhaustion(att, cfg, error) == ~isTransientError(error)

\* line 67: attempt === config.maxRetries || !isTransientError(error)
shouldBreak(att, cfg, error) ==
    att = cfg.maxRetries \/ ~isTransientError(error)

\* the retry-after hint taken as milliseconds
computeWaitTime_hintAsMs(error, d, cfg) ==
    IF error.retryAfter # NoHeader
    THEN parseInt(error.retryAfter)
    ELSE Min(d, cfg.maxDelay)

\* the wait of a hint capped by maxDelay like the computed one
computeWaitTime_hintCapped(error, d, cfg) ==
    IF error.retryAfter # NoHeader
    THEN Min(parseInt(error.retryAfter) * 1000, cfg.maxDelay)
    ELSE Min(d, cfg.maxDelay)

\* lines 71-74: retryAfter ? parseInt(retryAfter) * 1000 : Math.min(delay, maxDelay)
computeWaitTime(error, d, cfg) ==
    IF error.retryAfter # NoHeader
    THEN parseInt(error.retryAfter) * 1000
    ELSE Min(d, cfg.maxDelay)

\* the delay left as it is after a wait
nextDelay_noGrowth(d, cfg) == d

\* line 77: delay *= config.backoffMultiplier
nextDelay(d, cfg) == d * cfg.backoffMultiplier

\* lines 81-85: the failure raised after the loop
finalFailure(last) ==
    ApplicationError("API_ERROR", OrText(last.message, "Gemini API request failed"),
                     OrStatus(last.status, 500))

\* ------------------------------------------------- retry.ts, callWithRetry

RetryIdle ==
    /\ pc = "idle"
    /\ config = DEFAULT_RETRY_CONFIG
    /\ attempt = 0
    /\ delay = 0
    /\ lastError = NoFailure
    /\ waitTime = 0
    /\ result = NoResult
    /\ calls = 0
    /\ failures = 0
    /\ thrown = NoFailure
    /\ fnValue = NoText
    /\ waits = <<>>

\* callWithRetry(fn, cfg) up to its first await: delay = initialDelay, attempt = 0, fn()
beginCallWithRetry(cfg) ==
    /\ pc = "idle"
    /\ config' = cfg
    /\ delay' = cfg.initialDelay
    /\ attempt' = 0
    /\ IF 0 <= cfg.maxRetries
       THEN /\ pc' = "calling"
            /\ calls' = calls + 1
            /\ result' = result
       ELSE /\ pc' = "raised"
            /\ calls' = calls
            /\ result' = TypeError
    /\ UNCHANGED <<lastError, waitTime, failures, thrown, fnValue, waits>>

\* a call of callWithRetry on its own
callWithRetry(cfg) ==
    /\ beginCallWithRetry(cfg)
    /\ UNCHANGED <<cacheVars, keyVars, handlerVars, factoryVars, classifyVars, routeVars, concurrentVars>>

\* fn() resolves with v: return await fn()
FnResolves(v) ==
    /\ pc = "calling"
    /\ fnValue' = v
    /\ result' = [kind |-> "value", code |-> NoText, message |-> v, statusCode |-> NoStatus]
    /\ pc' = "returned"
    /\ UNCHANGED <<config, attempt, delay, lastError, waitTime, calls, failures,
                   thrown, waits>>
    /\ UNCHANGED <<cacheVars, keyVars, handlerVars, factoryVars, classifyVars, routeVars, concurrentVars>>

\* fn() rejects with error: the catch block, up to the throw or the await sleep
FnRejects(error) ==
    /\ pc = "calling"
    /\ thrown' = error
    /\ failures' = failures + 1
    /\ lastError' = catchAssign(lastError, error)
    /\ IF error.kind = "nullish"
       THEN \* getErrorStatus reads a property of undefined
            /\ result' = TypeError
            /\ pc' = "raised"
            /\ UNCHANGED <<waitTime, waits>>
       ELSE IF isPermanentError(error)
       THEN /\ result' = permanentFailure(error)
            /\ pc' = "raised"
            /\ UNCHANGED <<waitTime, waits>>
       ELSE IF shouldBreak(attempt, config, error)
       THEN /\ result' = finalFailure(lastError')
            /\ pc' = "raised"
            /\ UNCHANGED <<waitTime, waits>>
       ELSE /\ waitTime' = computeWaitTime(error, delay, config)
            /\ waits' = Append(waits, [ms |-> waitTime', hint |-> error.retryAfter])
            /\ pc' = "sleeping"
            /\ result' = result
    /\ UNCHANGED <<config, attempt, delay, calls, fnValue>>
    /\ UNCHANGED <<cacheVars, keyVars, handlerVars, factoryVars, classifyVars, routeVars, concurrentVars>>

\* the sleep ends: delay *= backoffMultiplier, attempt++, the loop test, fn()
SleepEnds ==
    /\ pc = "sleeping"
    /\ delay' = nextDelay(delay, config)
    /\ attempt' = attempt + 1
    /\ IF attempt' <= config.maxRetries
       THEN /\ pc' = "calling"
            /\ calls' = calls + 1
            /\ result' = result
       ELSE /\ pc' = "raised"
            /\ calls' = calls
            /\ result' = finalFailure(lastError)
    /\ UNCHANGED <<config, lastError, waitTime, failures, thrown, fnValue, waits>>
    /\ UNCHANGED <<cacheVars, keyVars, handlerVars, factoryVars, classifyVars, routeVars, concurrentVars>>

\* ------------------------------------------- AnalyzeCacheService (LRUCache)

Keys == {"k1", "k2", "k3"}
CacheValues == {"v1", "v2"}

\* ttlSeconds given to the constructor
TtlSeconds == {1, 2}

\* ttlSeconds given to set; 0 stands for an argument that is absent or 0
TtlOverrides == {0, 1}

\* the <<value, ttlSeconds>> given to set: the first value with the default
\* TTL, the second with the override
SetArguments ==
    {arg \in CacheValues \X TtlOverrides : (arg[1] = "v2") <=> (arg[2] # 0)}

\* an operation and what it returned: found for has, value for get (NoText: undefined)
Returned(op, found, value) ==
    [op |-> op, found |-> found, value |-> value, evicted |-> NoText]

\* position of key in entries, 0 when it is not stored
IndexOf(key) ==
    IF \E i \in 1..Len(entries) : entries[i].key = key
    THEN CHOOSE i \in 1..Len(entries) : entries[i].key = key
    ELSE 0

RemoveAt(seq, i) == SubSeq(seq, 1, i - 1) \o SubSeq(seq, i + 1, Len(seq))

\* an entry that goes stale only in a full cache
isStale_whenFull(e) == Len(entries) >= cacheMax /\ now > e.expires

\* LRUCache keeps the start and the ttl of an entry, which is stale once
\* now - start > ttl; the model keeps their sum, expires = start + ttl
isStale(e) == now > e.expires

\* set that never evicts
lruSet_noEvict(key, value, ttl) ==
    LET e == [key |-> key, value |-> value, expires |-> now + ttl]
        i == IndexOf(key)
    IN  IF i # 0
        THEN Append(RemoveAt(entries, i), e)
        ELSE Append(entries, e)

\* a set that drops the most recently used entry when full
lruSet_evictNewest(key, value, ttl) ==
    LET e == [key |-> key, value |-> value, expires |-> now + ttl]
        i == IndexOf(key)
    IN  IF i # 0
        THEN Append(RemoveAt(entries, i), e)
        ELSE IF Len(entries) >= cacheMax
        THEN Append(SubSeq(entries, 1, Len(entries) - 1), e)
        ELSE Append(entries, e)

\* a set that makes room in a full cache also for a key that is stored
lruSet_evictsOnUpdate(key, value, ttl) ==
    LET e == [key |-> key, value |-> value, expires |-> now + ttl]
        i == IndexOf(key)
    IN  IF Len(entries) >= cacheMax
        THEN Append(Tail(entries), e)
        ELSE IF i # 0
        THEN Append(RemoveAt(entries, i), e)
        ELSE Append(entries, e)

\* LRUCache.set(key, value, {ttl}): replace and refresh a stored key, else evict
\* the least recently used entry when full, and store as most recently used
lruSet(key, value, ttl) ==
    LET e == [key |-> key, value |-> value, expires |-> now + ttl]
        i == IndexOf(key)
    IN  IF i # 0
        THEN Append(RemoveAt(entries, i), e)
        ELSE IF Len(entries) >= cacheMax
        THEN Append(Tail(entries), e)
        ELSE Append(entries, e)

\* constructor(maxEntries, ttlSeconds)
CacheNew(maxEntries, ttlSeconds) ==
    /\ cacheMax = maxEntries
    /\ cacheTtl = ttlSeconds * 1000
    /\ entries = <<>>
    /\ hits = 0
    /\ misses = 0
    /\ now = 0
    /\ lastOp = Returned("new", FALSE, NoText)

\* the ttl set gives to LRUCache.set: `ttlSeconds ? {ttl: ttlSeconds * 1000} : undefined`
setTtl(ttlSeconds) == IF ttlSeconds # 0 THEN ttlSeconds * 1000 ELSE cacheTtl

\* what a set leaves in lastOp
setReturned(key) ==
    [Returned("set", FALSE, NoText) EXCEPT
        !.evicted = IF IndexOf(key) = 0 /\ Len(entries) >= cacheMax
                    THEN entries[1].key ELSE NoText]

\* set(key, value, ttlSeconds?); lastOp.evicted is the key of the entry that
\* LRUCache.set dropped to make room
Set(key, value, ttlSeconds) ==
    /\ entries' = lruSet(key, value, setTtl(ttlSeconds))
    /\ lastOp' = setReturned(key)
    /\ UNCHANGED <<cacheMax, cacheTtl, hits, misses, now>>
    /\ UNCHANGED <<retryVars, keyVars, handlerVars, factoryVars, classifyVars, routeVars, concurrentVars>>

\* what LRUCache.has(key) returns: stored and not stale
lruHas(key) ==
    LET i == IndexOf(key) IN i # 0 /\ ~isStale(entries[i])

\* what LRUCache.get(key) returns: the value of a live entry, else undefined
lruGet(key) == IF lruHas(key) THEN entries[IndexOf(key)].value ELSE NoText

\* a get under updateAgeOnGet: true, the age of the entry read starts again
lruGetEntries_updateAgeOnGet(key) ==
    LET i == IndexOf(key)
    IN  IF i = 0 THEN entries
        ELSE IF lruHas(key)
        THEN Append(RemoveAt(entries, i), [entries[i] EXCEPT !.expires = now + cacheTtl])
        ELSE RemoveAt(entries, i)

\* the entries after LRUCache.get(key): a stale entry is dropped, a live one
\* becomes the most recently used
lruGetEntries(key) ==
    LET i == IndexOf(key)
    IN  IF i = 0 THEN entries
        ELSE IF lruHas(key) THEN Append(RemoveAt(entries, i), entries[i])
        ELSE RemoveAt(entries, i)

\* a get that counts hits only
countGet_hitsOnly(value) ==
    IF value # NoText THEN <<hits + 1, misses>> ELSE <<hits, misses>>

\* get: `if (value !== undefined) this.hits++ else this.misses++`, as <<hits, misses>>
countGet(value) ==
    IF value # NoText THEN <<hits + 1, misses>> ELSE <<hits, misses + 1>>

\* get(key): LRUCache.get drops a stale entry and makes a live one the most
\* recently used; then one of the two counters is incremented
Get(key) ==
    /\ hits + misses < MaxGets
    /\ entries' = lruGetEntries(key)
    /\ hits' = countGet(lruGet(key))[1]
    /\ misses' = countGet(lruGet(key))[2]
    /\ lastOp' = Returned("get", lruGet(key) # NoText, lruGet(key))
    /\ UNCHANGED <<cacheMax, cacheTtl, now>>
    /\ UNCHANGED <<retryVars, keyVars, handlerVars, factoryVars, classifyVars, routeVars, concurrentVars>>

\* a has that drops the entry it finds expired, as get does
Has_dropsStale(key) ==
    /\ lastOp' = Returned("has", lruHas(key), NoText)
    /\ entries' = IF IndexOf(key) # 0 /\ ~lruHas(key)
                  THEN RemoveAt(entries, IndexOf(key)) ELSE entries
    /\ UNCHANGED <<cacheMax, cacheTtl, hits, misses, now>>
    /\ UNCHANGED <<retryVars, keyVars, handlerVars, factoryVars, classifyVars, routeVars, concurrentVars>>

\* has(key)
Has(key) ==
    /\ lastOp' = Returned("has", lruHas(key), NoText)
    /\ UNCHANGED <<cacheMax, cacheTtl, entries, hits, misses, now>>
    /\ UNCHANGED <<retryVars, keyVars, handlerVars, factoryVars, classifyVars, routeVars, concurrentVars>>

\* getStats(): reads only; hitRate is kept as the fraction <<numerator, denominator>>
getStats ==
    LET total == hits + misses IN
    [size |-> Len(entries), maxSize |-> cacheMax, hits |-> hits, misses |-> misses,
     hitRate |-> IF total > 0 THEN <<hits, total>> ELSE <<0, 1>>]

GetStats ==
    /\ lastOp' = Returned("getStats", FALSE, NoText)
    /\ UNCHANGED <<cacheMax, cacheTtl, entries, hits, misses, now>>
    /\ UNCHANGED <<retryVars, keyVars, handlerVars, factoryVars, classifyVars, routeVars, concurrentVars>>

\* a clear that also abandons the requests awaiting their upstream call
Clear_cancels ==
    /\ entries' = <<>>
    /\ hits' = 0
    /\ misses' = 0
    /\ lastOp' = Returned("clear", FALSE, NoText)
    /\ inflight' = EmptyBag
    /\ UNCHANGED <<cacheMax, cacheTtl, now, lastReply, upstreamCalls>>
    /\ UNCHANGED <<retryVars, keyVars, factoryVars, classifyVars, routeVars, concurrentVars>>

\* clear()
Clear ==
    /\ entries' = <<>>
    /\ hits' = 0
    /\ misses' = 0
    /\ lastOp' = Returned("clear", FALSE, NoText)
    /\ UNCHANGED <<cacheMax, cacheTtl, now>>
    /\ UNCHANGED <<retryVars, keyVars, handlerVars, factoryVars, classifyVars, routeVars, concurrentVars>>

\* a resetStats that empties the store as clear does
ResetStats_dropsEntries ==
    /\ entries' = <<>>
    /\ hits' = 0
    /\ misses' = 0
    /\ lastOp' = Returned("resetStats", FALSE, NoText)
    /\ UNCHANGED <<cacheMax, cacheTtl, now>>
    /\ UNCHANGED <<retryVars, keyVars, handlerVars, factoryVars, classifyVars, routeVars, concurrentVars>>

\* resetStats()
ResetStats ==
    /\ hits' = 0
    /\ misses' = 0
    /\ lastOp' = Returned("resetStats", FALSE, NoText)
    /\ UNCHANGED <<cacheMax, cacheTtl, entries, now>>
    /\ UNCHANGED <<retryVars, keyVars, handlerVars, factoryVars, classifyVars, routeVars, concurrentVars>>

\* a second passes
Tick ==
    /\ now + 1000 <= MaxTicks * 1000
    /\ now' = now + 1000
    /\ UNCHANGED <<cacheMax, cacheTtl, entries, hits, misses, lastOp>>
    /\ UNCHANGED <<retryVars, keyVars, handlerVars, factoryVars, classifyVars, routeVars, concurrentVars>>

\* ----------------------------------------------------------- generateKey

\* A string is the sequence of its pieces; the pieces are "K", "J", ":" and
\* the action names, no one of which begins another, so that two sequences
\* are equal exactly when the strings they spell are equal.
Phrases == {<<"K">>, <<"J">>, <<"K", ":", "explain">>}
ActionTypes == {<<"translate">>, <<"explain">>}

\* an optional argument: {} when it is absent (undefined), {text} when given
Undefined == {}
Some(text) == {text}
TheText(opt) == CHOOSE text \in opt : TRUE

\* fullPhrase as given to generateKey: absent, empty, or a text
FullPhrases == {Undefined, Some(<<>>), Some(<<"K", "J">>), Some(<<"translate">>)}

\* JavaScript truthiness of an optional string: given and not empty
Truthy(opt) == opt # Undefined /\ TheText(opt) # <<>>

\* crypto.createHash('sha256').update(data).digest('hex'): the digest stands
\* for the data it was computed from (no two data share a digest)
sha256(data) == [sha256 |-> data]

\* generateKey(phrase, actionType, fullPhrase?)
generateKey(phrase, actionType, fullPhrase) ==
    LET cacheData ==
            IF Truthy(fullPhrase)
            THEN phrase \o <<":">> \o actionType \o <<":">> \o TheText(fullPhrase)
            ELSE phrase \o <<":">> \o actionType
    IN  sha256(cacheData)

KeyIdle == keyCalls = <<>>

\* the calls of generateKey that are compared
MaxKeyCalls == 2

\* one call of generateKey
GenerateKey(phrase, actionType, fullPhrase) ==
    /\ Len(keyCalls) < MaxKeyCalls
    /\ keyCalls' = Append(keyCalls,
                          [phrase |-> phrase, actionType |-> actionType,
                           fullPhrase |-> fullPhrase,
                           key |-> generateKey(phrase, actionType, fullPhrase)])
    /\ UNCHANGED <<retryVars, cacheVars, handlerVars, factoryVars, classifyVars, routeVars, concurrentVars>>

\* ----------------------------------------------------------- POST /analyze

\* requests that reach the cache over a run
MaxArrivals == 3

\* requests that await analyzeContent at one time
MaxInFlight == 2

\* images: a base64 PNG, a base64 text that is no PNG, and a base64 PNG of
\* more than MAX_IMAGE_SIZE bytes
PngImage == "iVBORw0KGgo="
TextImage == "aGVsbG8="
LargePngImage == "iVBORw0KGgoAAAANSUhEUgAA"
MalformedImage == "iVBOR w0KGgo"

\* what analyzeContent resolves with: JSON.parse(response.text), any JSON
\* value; JsonNull stands for the values that are defined and falsy
JsonNull == "null"
AnalysisResults == {"v1", "v2", JsonNull}

\* JavaScript truthiness of a value read from the cache (NoText: undefined)
IsTruthy(value) == value \notin {NoText, JsonNull}

\* a failure that is no ApplicationError: its code when a number, its code
\* when a string, its message
RawError(codeNumber, codeString, message) ==
    [kind |-> "Error", code |-> codeString, codeNumber |-> codeNumber,
     message |-> message, statusCode |-> NoStatus]

\* what analyzeContent rejects with: the ApplicationError of callWithRetry, or
\* a failure of another class
AnalysisFailures ==
    {ApplicationError("API_ERROR", "Gemini API request failed", 500),
     RawError(429, NoText, "quota exceeded")}

\* String.prototype.trim on a sequence of pieces, " " being white space
RECURSIVE trimStart(_)
trimStart(text) ==
    IF text # <<>> /\ Head(text) = " " THEN trimStart(Tail(text)) ELSE text

RECURSIVE trimEnd(_)
trimEnd(text) ==
    IF text # <<>> /\ text[Len(text)] = " "
    THEN trimEnd(SubSeq(text, 1, Len(text) - 1)) ELSE text

trim(text) == trimStart(trimEnd(text))

\* image checks of the handler, over the images of the model
isBase64(image) == image \in {PngImage, TextImage, LargePngImage}
isPng(image) == image \in {PngImage, LargePngImage}
isTooLarge(image) == image = LargePngImage

\* a handler that validates nothing
validate_none(phrase, fullPhrase, image) == NoResult

\* the ApplicationError the handler throws before it reads the cache, NoResult
\* when the request is valid
validate(phrase, fullPhrase, image) ==
    IF trim(phrase) = <<>>
    THEN ApplicationError("INVALID_REQUEST", "Phrase cannot be empty", 400)
    ELSE IF Truthy(fullPhrase) /\ trim(TheText(fullPhrase)) = trim(phrase)
    THEN ApplicationError("INVALID_REQUEST", "fullPhrase must be different from phrase", 400)
    ELSE IF image # Undefined /\ TheText(image) # NoText /\ ~isBase64(TheText(image))
    THEN ApplicationError("INVALID_REQUEST", "Image must be valid base64-encoded data", 400)
    ELSE IF image # Undefined /\ TheText(image) # NoText /\ ~isPng(TheText(image))
    THEN ApplicationError("INVALID_REQUEST", "Image must be PNG format", 400)
    ELSE IF image # Undefined /\ TheText(image) # NoText /\ isTooLarge(TheText(image))
    THEN ApplicationError("IMAGE_TOO_LARGE", "Image size exceeds limit", 413)
    ELSE NoResult

\* String.prototype.includes over the messages of the model
includes(message, part) ==
    \/ part = "quota" /\ message = "quota exceeded"
    \/ part = message

\* the ApplicationError the catch block throws for a failure of analyzeContent
categorize(error) ==
    IF error.kind = "ApplicationError" THEN error
    ELSE IF error.codeNumber = 401 \/ includes(error.message, "API key")
            \/ includes(error.message, "INVALID_ARGUMENT")
    THEN ApplicationError("API_UNAVAILABLE",
             "Service temporarily unavailable. Please contact support.", 503)
    ELSE IF error.codeNumber = 429 \/ includes(error.message, "quota")
            \/ includes(error.message, "rate limit")
    THEN ApplicationError("API_QUOTA_EXCEEDED",
             "Service temporarily unavailable due to high demand. Please try again later.", 503)
    ELSE IF includes(error.message, "content") /\ includes(error.message, "filter")
    THEN ApplicationError("CONTENT_FILTERED",
             "Unable to process this content. Please try different text.", 400)
    ELSE IF error.code \in {"ECONNREFUSED", "ENOTFOUND"}
    THEN ApplicationError("API_UNAVAILABLE",
             "Unable to connect to analysis service. Please try again.", 503)
    ELSE IF error.code = "ETIMEDOUT" \/ includes(error.message, "timeout")
    THEN ApplicationError("TIMEOUT", "Request timed out. Please try again.", 504)
    ELSE ApplicationError("API_ERROR", "Failed to analyze phrase", 500)

\* a request: the body fields the handler reads
Request(phrase, action, fullPhrase, image) ==
    [phrase |-> phrase, action |-> action, fullPhrase |-> fullPhrase, image |-> image]

\* request bodies that pass the schema (phrase of 1..1000 characters, action of
\* the enum, context.fullPhrase and context.image optional strings): three
\* (phrase, action, fullPhrase), the first with and without an image, and
\* five that the handler rejects
ValidRequests ==
    {Request(<<"K">>, <<"translate">>, Undefined, image) :
        image \in {Undefined, Some(PngImage)}}
    \cup {Request(<<"K">>, <<"explain">>, Undefined, Undefined),
          Request(<<"K">>, <<"translate">>, Some(<<"K", "J">>), Undefined)}

InvalidRequests ==
    {Request(<<" ">>, <<"translate">>, Undefined, Undefined),
     Request(<<"K">>, <<"translate">>, Some(<<"K", " ">>), Undefined),
     Request(<<"K">>, <<"translate">>, Undefined, Some(MalformedImage)),
     Request(<<"K">>, <<"translate">>, Undefined, Some(TextImage)),
     Request(<<"K">>, <<"translate">>, Undefined, Some(LargePngImage))}

AnalyzeRequests == ValidRequests \cup InvalidRequests

\* a reply: the request, where it was answered from ("rejected", "cache",
\* "upstream", "failed"), the body returned and the error thrown
Reply(request, from, body, error) ==
    <<[request |-> request, from |-> from, body |-> body, error |-> error]>>

HandlerIdle ==
    /\ inflight = EmptyBag
    /\ lastReply = <<>>
    /\ upstreamCalls = 0

\* a handler that joins the upstream call already in flight for its key
awaitAnalyzeContent_coalesced(request, cacheKey, cachedResult) ==
    IF \E pending \in BagToSet(inflight) : pending.cacheKey = cacheKey
    THEN UNCHANGED <<inflight, upstreamCalls>>
    ELSE /\ inflight' = inflight (+)
                SetToBag({[request |-> request, cacheKey |-> cacheKey,
                           cachedResult |-> cachedResult]})
         /\ upstreamCalls' = upstreamCalls + 1

\* `await getGeminiService().analyzeContent(...)`: the call is made and the
\* request waits for it, whatever else is in flight
awaitAnalyzeContent(request, cacheKey, cachedResult) ==
    /\ inflight' = inflight (+)
           SetToBag({[request |-> request, cacheKey |-> cacheKey,
                      cachedResult |-> cachedResult]})
    /\ upstreamCalls' = upstreamCalls + 1

\* POST /analyze up to its first await or its return: validation, generateKey,
\* analyzeCache.get, and either the cached result or the call of analyzeContent
Analyze(phrase, action, fullPhrase, image) ==
    LET request == Request(phrase, action, fullPhrase, image)
        invalid == validate(phrase, fullPhrase, image)
        cacheKey == generateKey(phrase, action, fullPhrase)
        cachedResult == lruGet(cacheKey)
    IN  /\ hits + misses < MaxArrivals
        /\ BagCardinality(inflight) < MaxInFlight
        /\ IF invalid # NoResult
           THEN /\ lastReply' = Reply(request, "rejected", NoText, invalid)
                /\ UNCHANGED <<entries, hits, misses, lastOp, inflight, upstreamCalls>>
           ELSE /\ entries' = lruGetEntries(cacheKey)
                /\ hits' = countGet(cachedResult)[1]
                /\ misses' = countGet(cachedResult)[2]
                /\ lastOp' = Returned("get", cachedResult # NoText, cachedResult)
                /\ IF IsTruthy(cachedResult)
                   THEN /\ lastReply' = Reply(request, "cache", cachedResult, NoResult)
                        /\ UNCHANGED <<inflight, upstreamCalls>>
                   ELSE /\ awaitAnalyzeContent(request, cacheKey, cachedResult)
                        /\ lastReply' = lastReply
        /\ UNCHANGED <<cacheMax, cacheTtl, now>>
        /\ UNCHANGED <<retryVars, keyVars, factoryVars, classifyVars, routeVars, concurrentVars>>

\* analyzeContent resolves for a request in flight: analyzeCache.set(cacheKey,
\* result), and the result is returned
AnalyzeContentResolves(pending, analysis) ==
    /\ BagIn(pending, inflight)
    /\ entries' = lruSet(pending.cacheKey, analysis, setTtl(0))
    /\ lastOp' = setReturned(pending.cacheKey)
    /\ lastReply' = Reply(pending.request, "upstream", analysis, NoResult)
    /\ inflight' = inflight (-) SetToBag({pending})
    /\ UNCHANGED <<cacheMax, cacheTtl, hits, misses, now, upstreamCalls>>
    /\ UNCHANGED <<retryVars, keyVars, factoryVars, classifyVars, routeVars, concurrentVars>>

\* a handler that caches the code of the failure it throws
AnalyzeContentRejects_caches(pending, error) ==
    /\ BagIn(pending, inflight)
    /\ entries' = lruSet(pending.cacheKey, categorize(error).code, setTtl(0))
    /\ lastOp' = setReturned(pending.cacheKey)
    /\ lastReply' = Reply(pending.request, "failed", NoText, categorize(error))
    /\ inflight' = inflight (-) SetToBag({pending})
    /\ UNCHANGED <<cacheMax, cacheTtl, hits, misses, now, upstreamCalls>>
    /\ UNCHANGED <<retryVars, keyVars, factoryVars, classifyVars, routeVars, concurrentVars>>

\* analyzeContent rejects for a request in flight: an ApplicationError is
\* thrown again, any other failure is thrown as the ApplicationError of its class
AnalyzeContentRejects(pending, error) ==
    /\ BagIn(pending, inflight)
    /\ lastReply' = Reply(pending.request, "failed", NoText, categorize(error))
    /\ inflight' = inflight (-) SetToBag({pending})
    /\ UNCHANGED <<retryVars, cacheVars, keyVars, upstreamCalls, factoryVars, classifyVars, routeVars, concurrentVars>>

\* ============================================== createServiceFactory
\* src/utils/service-factory.ts: a lazily constructed, memoized instance

\* accesses made to the accessors
MaxAccesses == 3

\* the accessors created (each route plugin creates its own)
Accessors == {"getGeminiService", "getService"}

\* what a constructor returns: a new object on each call, or a primitive
ReturnKinds == {"object", "zero", "empty", "null", "undefined"}

\* the value a declared but unassigned variable has
JsUndefined == [type |-> "undefined", id |-> 0]

\* the value the n-th call of a constructor of the given kind returns:
\* objects created by different calls are different objects
construct(kind, n) ==
    IF kind = "object" THEN [type |-> "object", id |-> n] ELSE [type |-> kind, id |-> 0]

\* the constructors: what they return and whether a call of them can throw
Factories == [returns : ReturnKinds, mayThrow : BOOLEAN]

\* createServiceFactory(factory): `let instance; let initialized = false`
createServiceFactory(factories) ==
    /\ factory = factories
    /\ initialized = [a \in Accessors |-> FALSE]
    /\ instance = [a \in Accessors |-> JsUndefined]
    /\ factoryCalls = [a \in Accessors |-> 0]
    /\ accessLog = <<>>

\* the accessors of the other components' specifications, never accessed
FactoryIdle == createServiceFactory([a \in Accessors |-> [returns |-> "object", mayThrow |-> FALSE]])

\* a memoization that tests the instance instead of the flag
needsInit_instanceFalsy(a) == instance[a].type # "object"

\* `if (!initialized)`
needsInit(a) == ~initialized[a]

\* an accessor that sets the flag before it calls the constructor
Access_flagFirst(a, throws) ==
    /\ Len(accessLog) < MaxAccesses
    /\ throws => needsInit(a) /\ factory[a].mayThrow
    /\ IF needsInit(a)
       THEN /\ factoryCalls' = [factoryCalls EXCEPT ![a] = @ + 1]
            /\ initialized' = [initialized EXCEPT ![a] = TRUE]
            /\ IF throws
               THEN /\ UNCHANGED instance
                    /\ accessLog' = Append(accessLog,
                           [accessor |-> a, threw |-> TRUE, value |-> JsUndefined])
               ELSE /\ instance' = [instance EXCEPT
                           ![a] = construct(factory[a].returns, factoryCalls'[a])]
                    /\ accessLog' = Append(accessLog,
                           [accessor |-> a, threw |-> FALSE, value |-> instance'[a]])
       ELSE /\ UNCHANGED <<instance, initialized, factoryCalls>>
            /\ accessLog' = Append(accessLog,
                   [accessor |-> a, threw |-> FALSE, value |-> instance[a]])
    /\ UNCHANGED factory
    /\ UNCHANGED <<retryVars, cacheVars, keyVars, handlerVars, classifyVars, routeVars, concurrentVars>>

\* one call of the accessor: `() => { if (!initialized) { instance = factory();
\* initialized = true; } return instance; }`; a constructor that throws
\* leaves the closure as it was and the exception reaches the caller
Access(a, throws) ==
    /\ Len(accessLog) < MaxAccesses
    /\ throws => needsInit(a) /\ factory[a].mayThrow
    /\ IF needsInit(a)
       THEN /\ factoryCalls' = [factoryCalls EXCEPT ![a] = @ + 1]
            /\ IF throws
               THEN /\ UNCHANGED <<instance, initialized>>
                    /\ accessLog' = Append(accessLog,
                           [accessor |-> a, threw |-> TRUE, value |-> JsUndefined])
               ELSE /\ instance' = [instance EXCEPT
                           ![a] = construct(factory[a].returns, factoryCalls'[a])]
                    /\ initialized' = [initialized EXCEPT ![a] = TRUE]
                    /\ accessLog' = Append(accessLog,
                           [accessor |-> a, threw |-> FALSE, value |-> instance'[a]])
       ELSE /\ UNCHANGED <<instance, initialized, factoryCalls>>
            /\ accessLog' = Append(accessLog,
                   [accessor |-> a, threw |-> FALSE, value |-> instance[a]])
    /\ UNCHANGED factory
    /\ UNCHANGED <<retryVars, cacheVars, keyVars, handlerVars, classifyVars, routeVars, concurrentVars>>


\* =============================================== categorizeApiError
\* src/utils/error-categorization.ts: the error classifier

\* A message is a sequence of fragments of text; the fragments of the model
\* are such that a searched text occurs in a message exactly when it is one
\* of the fragments of the message. The empty message stands for '' and for
\* an absent message.
NoMessage == <<>>

\* String.prototype.toLowerCase on a fragment
lowerFragment(fragment) ==
    CASE fragment = "API key" -> "api key"
      [] fragment = "INVALID_ARGUMENT" -> "invalid_argument"
      [] fragment = "Quota" -> "quota"
      [] fragment = "Rate limit" -> "rate limit"
      [] fragment = "Detailed" -> "detailed"
      [] OTHER -> fragment

\* String.prototype.toLowerCase
toLowerCase(message) == [i \in 1..Len(message) |-> lowerFragment(message[i])]

\* String.prototype.includes
messageIncludes(message, part) == \E i \in 1..Len(message) : message[i] = part

\* the messages of raw failures
ClassifierMessages ==
    {NoMessage, <<"API key", "refused">>, <<"INVALID_ARGUMENT">>,
     <<"timeout", "Quota">>, <<"Rate limit">>, <<"content", "filter">>,
     <<"content">>, <<"timeout">>, <<"Detailed">>}

\* the values of the field code: a number, a string, or none
ClassifierCodes ==
    {<<NoStatus, NoText>>, <<401, NoText>>, <<429, NoText>>, <<500, NoText>>,
     <<NoStatus, "ECONNREFUSED">>, <<NoStatus, "ENOTFOUND">>, <<NoStatus, "ETIMEDOUT">>}

\* a raw failure as the classifier sees it
Thrown(kind, codeNumber, codeString, message) ==
    [kind |-> kind, codeNumber |-> codeNumber, code |-> codeString, message |-> message]

\* the raw failures: objects, null, undefined, and a thrown primitive
ClassifierFailures ==
    {Thrown("object", c[1], c[2], m) : c \in ClassifierCodes, m \in ClassifierMessages}
        \cup {Thrown(kind, NoStatus, NoText, NoMessage) : kind \in {"null", "undefined", "primitive"}}

\* ErrorContext
ErrorContexts == {"identify phrase", "identify phrases", "analyze"}

\* ErrorCategorizationOptions: isDevelopment is optional
ErrorCategorizationOptions == [context : ErrorContexts, isDevelopment : {{}, {TRUE}, {FALSE}}]

\* new ApplicationError(code, message, statusCode, details)
ApplicationErrorWith(code, message, statusCode, details) ==
    [kind |-> "ApplicationError", code |-> code, message |-> message,
     statusCode |-> statusCode, details |-> details]

\* `(error as any)?.code`, its numeric and its string reading
optionalCode(error) ==
    IF error.kind \in {"null", "undefined"} THEN <<NoStatus, NoText>>
    ELSE <<error.codeNumber, error.code>>

\* `(error as any)?.message || ''`
optionalMessage(error) ==
    IF error.kind \in {"null", "undefined"} THEN NoMessage ELSE error.message

\* `const { context, isDevelopment = false } = options`
isDevelopmentOf(opts) == IF opts.isDevelopment = {} THEN FALSE ELSE TRUE \in opts.isDevelopment

\* the conditions of the five rules
isAuthError(errorCode, errorMessage) ==
    \/ errorCode[1] = 401
    \/ messageIncludes(errorMessage, "api key")
    \/ messageIncludes(errorMessage, "invalid_argument")

isQuotaError(errorCode, errorMessage) ==
    \/ errorCode[1] = 429
    \/ messageIncludes(errorMessage, "quota")
    \/ messageIncludes(errorMessage, "rate limit")

isContentFiltered(errorCode, errorMessage) ==
    messageIncludes(errorMessage, "content") /\ messageIncludes(errorMessage, "filter")

isNetworkError(errorCode, errorMessage) ==
    errorCode[2] = "ECONNREFUSED" \/ errorCode[2] = "ENOTFOUND"

isTimeoutError(errorCode, errorMessage) ==
    errorCode[2] = "ETIMEDOUT" \/ messageIncludes(errorMessage, "timeout")

\* one timeout message for every context
timeoutMessages_oneForAll ==
    [c \in ErrorContexts |-> "Request timed out. Please try again."]

timeoutMessages ==
    [c \in ErrorContexts |->
        CASE c = "identify phrase" ->
                 "Request timed out. Please try again with a smaller image or selection."
          [] c = "identify phrases" ->
                 "Request timed out. Please try again with a smaller image or fewer phrases."
          [] c = "analyze" -> "Request timed out. Please try again."]

contextMessages ==
    [c \in ErrorContexts |->
        CASE c = "identify phrase" -> "Failed to identify phrase from screenshot"
          [] c = "identify phrases" -> "Failed to identify phrases from screenshot"
          [] c = "analyze" -> "Failed to analyze phrase"]

\* the details of the generic error
genericDetails_always(error, opts) == {[originalError |-> optionalMessage(error)]}

genericDetails(error, opts) ==
    IF isDevelopmentOf(opts) THEN {[originalError |-> optionalMessage(error)]} ELSE {}

\* the rules tried with the network and timeout codes first
applyRules_codesFirst(error, errorCode, errorMessage, opts) ==
    IF isNetworkError(errorCode, errorMessage)
    THEN ApplicationErrorWith("API_UNAVAILABLE",
             "Unable to connect to analysis service. Please try again.", 503, {})
    ELSE IF isTimeoutError(errorCode, errorMessage)
    THEN ApplicationErrorWith("TIMEOUT", timeoutMessages[opts.context], 504, {})
    ELSE IF isAuthError(errorCode, errorMessage)
    THEN ApplicationErrorWith("API_UNAVAILABLE",
             "Service temporarily unavailable. Please contact support.", 503, {})
    ELSE IF isQuotaError(errorCode, errorMessage)
    THEN ApplicationErrorWith("API_QUOTA_EXCEEDED",
             "Service temporarily unavailable due to high demand. Please try again later.",
             503, {})
    ELSE IF isContentFiltered(errorCode, errorMessage)
    THEN ApplicationErrorWith("CONTENT_FILTERED",
             "Unable to process this content. Please try different text.", 400, {})
    ELSE ApplicationErrorWith("API_ERROR", contextMessages[opts.context], 500,
             genericDetails(error, opts))

\* the chain of `if (...) return new ApplicationError(...)`
applyRules(error, errorCode, errorMessage, opts) ==
    IF isAuthError(errorCode, errorMessage)
    THEN ApplicationErrorWith("API_UNAVAILABLE",
             "Service temporarily unavailable. Please contact support.", 503, {})
    ELSE IF isQuotaError(errorCode, errorMessage)
    THEN ApplicationErrorWith("API_QUOTA_EXCEEDED",
             "Service temporarily unavailable due to high demand. Please try again later.",
             503, {})
    ELSE IF isContentFiltered(errorCode, errorMessage)
    THEN ApplicationErrorWith("CONTENT_FILTERED",
             "Unable to process this content. Please try different text.", 400, {})
    ELSE IF isNetworkError(errorCode, errorMessage)
    THEN ApplicationErrorWith("API_UNAVAILABLE",
             "Unable to connect to analysis service. Please try again.", 503, {})
    ELSE IF isTimeoutError(errorCode, errorMessage)
    THEN ApplicationErrorWith("TIMEOUT", timeoutMessages[opts.context], 504, {})
    ELSE ApplicationErrorWith("API_ERROR", contextMessages[opts.context], 500,
             genericDetails(error, opts))

categorizeApiError(error, opts) ==
    applyRules(error, optionalCode(error), toLowerCase(optionalMessage(error)), opts)

\* routes/analyze.ts, the rules written in the catch block of POST /analyze, on
\* a failure that is no ApplicationError: the message is searched as it is,
\* for 'API key', 'INVALID_ARGUMENT', 'quota', 'rate limit', 'content',
\* 'filter' and 'timeout'
categorizeInline(error, isDevelopment) ==
    LET errorCode == optionalCode(error)
        errorMessage == optionalMessage(error)
    IN  IF \/ errorCode[1] = 401
           \/ messageIncludes(errorMessage, "API key")
           \/ messageIncludes(errorMessage, "INVALID_ARGUMENT")
        THEN ApplicationErrorWith("API_UNAVAILABLE",
                 "Service temporarily unavailable. Please contact support.", 503, {})
        ELSE IF \/ errorCode[1] = 429
                \/ messageIncludes(errorMessage, "quota")
                \/ messageIncludes(errorMessage, "rate limit")
        THEN ApplicationErrorWith("API_QUOTA_EXCEEDED",
                 "Service temporarily unavailable due to high demand. Please try again later.",
                 503, {})
        ELSE IF messageIncludes(errorMessage, "content") /\ messageIncludes(errorMessage, "filter")
        THEN ApplicationErrorWith("CONTENT_FILTERED",
                 "Unable to process this content. Please try different text.", 400, {})
        ELSE IF errorCode[2] = "ECONNREFUSED" \/ errorCode[2] = "ENOTFOUND"
        THEN ApplicationErrorWith("API_UNAVAILABLE",
                 "Unable to connect to analysis service. Please try again.", 503, {})
        ELSE IF errorCode[2] = "ETIMEDOUT" \/ messageIncludes(errorMessage, "timeout")
        THEN ApplicationErrorWith("TIMEOUT", "Request timed out. Please try again.", 504, {})
        ELSE ApplicationErrorWith("API_ERROR", "Failed to analyze phrase", 500,
                 IF isDevelopment THEN {[originalError |-> errorMessage]} ELSE {})

\* no failure classified yet
ClassifyIdle ==
    /\ options = [context |-> "analyze", isDevelopment |-> {}]
    /\ classifyCalls = <<>>

\* the last call and the one before it
lastTwo(seq) == IF Len(seq) <= 2 THEN seq ELSE SubSeq(seq, Len(seq) - 1, Len(seq))

\* one call categorizeApiError(error, options)
CategorizeApiError(error) ==
    /\ classifyCalls' = lastTwo(Append(classifyCalls,
           [error |-> error, output |-> categorizeApiError(error, options)]))
    /\ UNCHANGED options
    /\ UNCHANGED <<retryVars, cacheVars, keyVars, handlerVars, factoryVars, routeVars, concurrentVars>>

\* ==================================================== route handlers
\* POST /analyze, /identify-phrase and /identify-phrases in front of
\* GeminiService, whose methods wrap the upstream call in callWithRetry, and
\* the error handler that turns what a handler throws into the response

\* requests received
MaxRequests == 2

NodeEnvs == {"production", "development"}

\* the ApplicationError('API_ERROR', message, 502) that the operation wrapped by
\* callWithRetry throws on an empty response and on a response that is not
\* JSON: statusCode 502, no status; its code 'API_ERROR' is never read as a
\* status, statusCode being truthy
NormalizedFailures ==
    {[NoFailure EXCEPT !.kind = "object", !.statusCode = 502, !.message = m,
                       !.name = "ApplicationError"] :
        m \in {"Gemini API returned empty response",
               "Invalid JSON response from Gemini API"}}

\* the failures the upstream call rejects with, one of each kind the retry
\* engine tells apart: undefined, a transient status, a transient code, a
\* permanent status, a message that looks transient, an unrecognised status,
\* and the two failures the operation raises itself
UpstreamFailures ==
    {Nullish,
     [NoFailure EXCEPT !.kind = "object", !.status = 429],
     [NoFailure EXCEPT !.kind = "object", !.code = 429, !.message = "quota exceeded"],
     [NoFailure EXCEPT !.kind = "object", !.status = 400, !.message = "Bad request"],
     [NoFailure EXCEPT !.kind = "object", !.message = "Request timeout"],
     [NoFailure EXCEPT !.kind = "object", !.statusCode = 418]}
        \cup NormalizedFailures

\* the body a handler returns, or the error body the error handler sends
Response(statusCode, code, message, details, body) ==
    [route |-> "none", statusCode |-> statusCode, code |-> code, message |-> message,
     details |-> details, body |-> body]

\* the response to a request of a route
ResponseOf(context, reply) == [reply EXCEPT !.route = context]

NoResponse == Response(NoStatus, NoText, NoText, {}, NoText)

RoutesIdle ==
    /\ nodeEnv = "production"
    /\ route = "none"
    /\ served = 0
    /\ serviceCalls = 0
    /\ classifierRuns = 0
    /\ response = NoResponse

\* every route in front of the cache
usesCache_everyRoute(context) == TRUE

\* only the analyze handler reads app.analyzeCache
usesCache(context) == context = "analyze"

\* the key of the analyze request of this specification
RouteCacheKey == generateKey(<<"K">>, <<"translate">>, Undefined)

\* a failure that is no ApplicationError, as the classifier reads it: no code,
\* its message
asThrown(error) ==
    Thrown("object", NoStatus, NoText,
           IF error.message = NoText THEN NoMessage ELSE <<error.message>>)

\* the details of an error, absent on an error built without them
detailsOf(error) == IF "details" \in DOMAIN error THEN error.details ELSE {}

\* the catch block of a handler: an ApplicationError is thrown again as it
\* is; any other failure is classified, by the inline rules in /analyze and by
\* categorizeApiError in the identification routes
routeCatch(context, error, env) ==
    IF error.kind = "ApplicationError" THEN error
    ELSE IF context = "analyze"
    THEN LET classified == categorize(RawError(NoStatus, NoText, error.message))
         IN  ApplicationErrorWith(classified.code, classified.message, classified.statusCode,
                 IF classified.code = "API_ERROR" /\ env = "development"
                 THEN {[originalError |-> error.message]} ELSE {})
    ELSE categorizeApiError(asThrown(error),
             [context |-> context, isDevelopment |-> {env = "development"}])

\* times the classification rules ran in the catch block
rulesRun(error) == IF error.kind = "ApplicationError" THEN 0 ELSE 1

\* setErrorHandler: the rate-limit branch, the ApplicationError branch, the default
errorHandler(error, env) ==
    IF error.statusCode = 429
    THEN Response(429, "RATE_LIMIT", error.message, {}, NoText)
    ELSE IF error.kind = "ApplicationError"
    THEN Response(error.statusCode, error.code, error.message, detailsOf(error), NoText)
    ELSE Response(OrStatus(error.statusCode, 500), "INTERNAL_ERROR",
             IF env = "production" THEN "An unexpected error occurred" ELSE error.message,
             {}, NoText)

\* a handler receives a valid request and runs up to its first await: the
\* analyze handler reads the cache and returns a truthy cached result; otherwise
\* the method of the service is called, which starts callWithRetry
RouteReceives(context) ==
    /\ route = "none"
    /\ served < MaxRequests
    /\ classifierRuns' = 0
    /\ IF usesCache(context)
       THEN LET cachedResult == lruGet(RouteCacheKey)
            IN  /\ entries' = lruGetEntries(RouteCacheKey)
                /\ hits' = countGet(cachedResult)[1]
                /\ misses' = countGet(cachedResult)[2]
                /\ lastOp' = Returned("get", cachedResult # NoText, cachedResult)
                /\ IF IsTruthy(cachedResult)
                   THEN /\ response' = ResponseOf(context,
                               Response(200, NoText, NoText, {}, cachedResult))
                        /\ served' = served + 1
                        /\ UNCHANGED <<route, serviceCalls, retryVars>>
                   ELSE /\ response' = response
                        /\ route' = context
                        /\ serviceCalls' = serviceCalls + 1
                        /\ beginCallWithRetry(DEFAULT_RETRY_CONFIG)
                        /\ UNCHANGED served
       ELSE /\ response' = response
            /\ route' = context
            /\ serviceCalls' = serviceCalls + 1
            /\ beginCallWithRetry(DEFAULT_RETRY_CONFIG)
            /\ UNCHANGED <<served, entries, hits, misses, lastOp>>
    /\ UNCHANGED <<nodeEnv, cacheMax, cacheTtl, now>>
    /\ UNCHANGED <<keyVars, handlerVars, factoryVars, classifyVars, concurrentVars>>

\* the locals of a finished call are gone
endCallWithRetry ==
    /\ pc' = "idle"
    /\ config' = DEFAULT_RETRY_CONFIG
    /\ attempt' = 0
    /\ delay' = 0
    /\ lastError' = NoFailure
    /\ waitTime' = 0
    /\ result' = NoResult
    /\ calls' = 0
    /\ failures' = 0
    /\ thrown' = NoFailure
    /\ fnValue' = NoText
    /\ waits' = <<>>

\* the await of the handler ends: the result is returned (and stored, by
\* /analyze), or the catch block throws and the error handler answers
RouteReplies ==
    /\ route # "none"
    /\ pc \in {"returned", "raised"}
    /\ IF pc = "returned"
       THEN /\ response' = ResponseOf(route, Response(200, NoText, NoText, {}, fnValue))
            /\ classifierRuns' = classifierRuns
            /\ IF usesCache(route)
               THEN /\ entries' = lruSet(RouteCacheKey, fnValue, setTtl(0))
                    /\ lastOp' = setReturned(RouteCacheKey)
               ELSE UNCHANGED <<entries, lastOp>>
       ELSE /\ response' = ResponseOf(route,
                   errorHandler(routeCatch(route, result, nodeEnv), nodeEnv))
            /\ classifierRuns' = classifierRuns + rulesRun(result)
            /\ UNCHANGED <<entries, lastOp>>
    /\ route' = "none"
    /\ served' = served + 1
    /\ endCallWithRetry
    /\ UNCHANGED <<nodeEnv, serviceCalls, cacheMax, cacheTtl, hits, misses, now>>
    /\ UNCHANGED <<keyVars, handlerVars, factoryVars, classifyVars, concurrentVars>>

\* ================================== callWithRetry, calls in progress together
\* Each call of the async function callWithRetry has its own `lastError`,
\* `delay` and `attempt`; `await sleep(waitTime)` waits on a timer.

\* calls in progress together
MaxCalls == 2

CallIds == 1..MaxCalls

\* what the upstream call of a request rejects with: a transient failure, a
\* permanent one
ConcurrentFailures ==
    {[NoFailure EXCEPT !.kind = "object", !.status = 429],
     [NoFailure EXCEPT !.kind = "object", !.status = 400, !.message = "Bad request"]}

\* a call not yet made
NoCall ==
    [pc |-> "idle", attempt |-> 0, delay |-> 0, lastError |-> NoFailure, waitTime |-> 0,
     result |-> NoResult, sleepingAtStart |-> {}]

CallsIdle == callState = [c \in CallIds |-> NoCall]

\* the other calls that are in `await sleep(waitTime)`
Sleeping(c) == {d \in CallIds \ {c} : callState[d].pc = "sleeping"}

\* a sleep that keeps the thread until the wait is over
blockedBySleep_busyWait(c) == Sleeping(c) # {}

\* sleep(ms) is `new Promise(resolve => setTimeout(resolve, ms))`: a call that
\* sleeps holds nothing another call needs
blockedBySleep(c) == FALSE

\* the call begins: delay = initialDelay, attempt = 0, fn()
CallStarts(c) ==
    /\ callState[c].pc = "idle"
    /\ ~blockedBySleep(c)
    /\ callState' = [callState EXCEPT ![c] =
           [@ EXCEPT !.pc = "calling", !.delay = DEFAULT_RETRY_CONFIG.initialDelay,
                     !.attempt = 0, !.sleepingAtStart = Sleeping(c)]]
    /\ UNCHANGED <<retryVars, cacheVars, keyVars, handlerVars, factoryVars, classifyVars,
                   routeVars>>

\* fn() of the call resolves
CallResolves(c, v) ==
    /\ callState[c].pc = "calling"
    /\ ~blockedBySleep(c)
    /\ callState' = [callState EXCEPT ![c] =
           [@ EXCEPT !.pc = "returned",
                     !.result = [kind |-> "value", code |-> NoText, message |-> v,
                                 statusCode |-> NoStatus]]]
    /\ UNCHANGED <<retryVars, cacheVars, keyVars, handlerVars, factoryVars, classifyVars,
                   routeVars>>

\* fn() of the call rejects: the catch block, up to the throw or the await sleep
CallRejects(c, error) ==
    /\ callState[c].pc = "calling"
    /\ ~blockedBySleep(c)
    /\ callState' = [callState EXCEPT ![c] =
           IF isPermanentError(error)
           THEN [@ EXCEPT !.lastError = catchAssign(@, error), !.pc = "raised",
                          !.result = permanentFailure(error)]
           ELSE IF shouldBreak(callState[c].attempt, DEFAULT_RETRY_CONFIG, error)
           THEN [@ EXCEPT !.lastError = catchAssign(@, error), !.pc = "raised",
                          !.result = finalFailure(catchAssign(callState[c].lastError, error))]
           ELSE [@ EXCEPT !.lastError = catchAssign(@, error), !.pc = "sleeping",
                          !.waitTime = computeWaitTime(error, callState[c].delay,
                                                       DEFAULT_RETRY_CONFIG)]]
    /\ UNCHANGED <<retryVars, cacheVars, keyVars, handlerVars, factoryVars, classifyVars,
                   routeVars>>

\* the timer of the call fires: delay *= backoffMultiplier, attempt++, fn()
CallWakes(c) ==
    /\ callState[c].pc = "sleeping"
    /\ callState' = [callState EXCEPT ![c] =
           [@ EXCEPT !.delay = nextDelay(@, DEFAULT_RETRY_CONFIG),
                     !.attempt = @ + 1,
                     !.pc = IF callState[c].attempt + 1 <= DEFAULT_RETRY_CONFIG.maxRetries
                            THEN "calling" ELSE "raised",
                     !.result = IF callState[c].attempt + 1 <= DEFAULT_RETRY_CONFIG.maxRetries
                                THEN @ ELSE finalFailure(callState[c].lastError)]]
    /\ UNCHANGED <<retryVars, cacheVars, keyVars, handlerVars, factoryVars, classifyVars,
                   routeVars>>

\* -------------------------------------------------------- specifications

InitRetry == RetryIdle /\ CacheNew(1, 1) /\ KeyIdle /\ HandlerIdle /\ FactoryIdle /\ ClassifyIdle /\ RoutesIdle
    /\ CallsIdle

NextRetry ==
    \/ \E cfg \in RetryConfigs : callWithRetry(cfg)
    \/ \E v \in Values : FnResolves(v)
    \/ \E error \in RawFailures : FnRejects(error)
    \/ SleepEnds

SpecRetry == InitRetry /\ [][NextRetry]_vars

InitCache ==
    /\ RetryIdle
    /\ KeyIdle
    /\ HandlerIdle
    /\ FactoryIdle
    /\ ClassifyIdle
    /\ RoutesIdle
    /\ CallsIdle
    /\ \E maxEntries \in 1..MaxEntriesBound, ttlSeconds \in TtlSeconds :
           CacheNew(maxEntries, ttlSeconds)

NextCache ==
    \/ \E key \in Keys, arg \in SetArguments : Set(key, arg[1], arg[2])
    \/ \E key \in Keys : Get(key)
    \/ \E key \in Keys : Has(key)
    \/ GetStats
    \/ Clear
    \/ ResetStats
    \/ Tick

SpecCache == InitCache /\ [][NextCache]_vars

InitKey == RetryIdle /\ CacheNew(1, 1) /\ KeyIdle /\ HandlerIdle /\ FactoryIdle /\ ClassifyIdle /\ RoutesIdle
    /\ CallsIdle

NextKey ==
    \E phrase \in Phrases, actionType \in ActionTypes, fullPhrase \in FullPhrases :
        GenerateKey(phrase, actionType, fullPhrase)

SpecKey == InitKey /\ [][NextKey]_vars

InitAnalyze == RetryIdle /\ CacheNew(2, 1) /\ KeyIdle /\ HandlerIdle /\ FactoryIdle /\ ClassifyIdle /\ RoutesIdle
    /\ CallsIdle

NextAnalyze ==
    \/ \E request \in AnalyzeRequests :
           Analyze(request.phrase, request.action, request.fullPhrase, request.image)
    \/ \E pending \in BagToSet(inflight), analysis \in AnalysisResults :
           AnalyzeContentResolves(pending, analysis)
    \/ \E pending \in BagToSet(inflight), error \in AnalysisFailures :
           AnalyzeContentRejects(pending, error)
    \/ Tick

SpecAnalyze == InitAnalyze /\ [][NextAnalyze]_vars

\* POST /analyze with clear() called on the cache at any moment; the upstream
\* calls are counted over the whole run, so their number is what is capped
NextClear ==
    \/ \E request \in ValidRequests :
           /\ upstreamCalls < MaxArrivals
           /\ Analyze(request.phrase, request.action, request.fullPhrase, request.image)
    \/ \E pending \in BagToSet(inflight), analysis \in AnalysisResults :
           AnalyzeContentResolves(pending, analysis)
    \/ \E pending \in BagToSet(inflight), error \in AnalysisFailures :
           AnalyzeContentRejects(pending, error)
    \/ Clear

SpecClear == InitAnalyze /\ [][NextClear]_vars

InitFactory ==
    /\ RetryIdle
    /\ CacheNew(1, 1)
    /\ KeyIdle
    /\ HandlerIdle
    /\ ClassifyIdle
    /\ RoutesIdle
    /\ CallsIdle
    /\ \E factories \in [Accessors -> Factories] : createServiceFactory(factories)

NextFactory ==
    \E a \in Accessors, throws \in BOOLEAN : Access(a, throws)

SpecFactory == InitFactory /\ [][NextFactory]_vars

InitClassify ==
    /\ RetryIdle
    /\ CacheNew(1, 1)
    /\ KeyIdle
    /\ HandlerIdle
    /\ FactoryIdle
    /\ RoutesIdle
    /\ CallsIdle
    /\ options \in ErrorCategorizationOptions
    /\ classifyCalls = <<>>

NextClassify ==
    \E error \in ClassifierFailures : CategorizeApiError(error)

SpecClassify == InitClassify /\ [][NextClassify]_vars

InitRoutes ==
    /\ RetryIdle
    /\ CacheNew(2, 1)
    /\ KeyIdle
    /\ HandlerIdle
    /\ FactoryIdle
    /\ ClassifyIdle
    /\ nodeEnv \in NodeEnvs
    /\ route = "none"
    /\ served = 0
    /\ serviceCalls = 0
    /\ classifierRuns = 0
    /\ response = NoResponse
    /\ CallsIdle

NextRoutes ==
    \/ \E context \in ErrorContexts : RouteReceives(context)
    \/ \E v \in Values : FnResolves(v)
    \/ \E error \in UpstreamFailures : FnRejects(error)
    \/ SleepEnds
    \/ RouteReplies

SpecRoutes == InitRoutes /\ [][NextRoutes]_vars

InitConcurrent ==
    /\ RetryIdle
    /\ CacheNew(1, 1)
    /\ KeyIdle
    /\ HandlerIdle
    /\ FactoryIdle
    /\ ClassifyIdle
    /\ RoutesIdle
    /\ CallsIdle

NextConcurrent ==
    \E c \in CallIds :
        \/ CallStarts(c)
        \/ \E v \in Values : CallResolves(c, v)
        \/ \E error \in ConcurrentFailures : CallRejects(c, error)
        \/ CallWakes(c)

SpecConcurrent == InitConcurrent /\ [][NextConcurrent]_vars

\* ================================================================ claims

\* ---- the claims' own reading of a raw failure ----

\* the status of a failure: the first of statusCode, status, code that is set
ClaimStatus(e) ==
    IF e.statusCode # 0 THEN e.statusCode ELSE IF e.status # 0 THEN e.status ELSE e.code

ClaimPermanent(e) == ClaimStatus(e) \in {400, 401, 403, 404}

ClaimTransientStatus(e) == ClaimStatus(e) \in {429, 500, 503}

ClaimMatchingMessage(e) == e.message = "Request timeout"

\* with no message, the name is the text that is matched
ClaimMatchingName(e) == e.message = "" /\ e.name = "ECONNRESET"

\* a failure the engine is to treat as transient: not permanent, and a transient
\* status or a matching text
ClassifiedTransient(e) ==
    /\ ~ClaimPermanent(e)
    /\ ClaimTransientStatus(e) \/ ClaimMatchingMessage(e) \/ ClaimMatchingName(e)

HasFailed == failures > 0 /\ thrown.kind \in {"object", "primitive"}

Raised == pc = "raised" /\ HasFailed

RECURSIVE Pow(_, _)
Pow(b, n) == IF n = 0 THEN 1 ELSE b * Pow(b, n - 1)

\* the delay computed for the i-th wait (i = 1, 2, ...)
ClaimBackoff(i) ==
    LET d == config.initialDelay * Pow(config.backoffMultiplier, i - 1)
    IN  IF d <= config.maxDelay THEN d ELSE config.maxDelay

ClaimHintSeconds(h) == CASE h = <<"5">> -> 5 [] OTHER -> -1

WaitMs == [i \in 1..Len(waits) |-> waits[i].ms]

NoHints == \A i \in 1..Len(waits) : waits[i].hint = NoHeader

\* C1: one call invokes the operation at least once and at most maxRetries+1
\* times, the attempt number never exceeds maxRetries, and a failure classified
\* transient is raised only when retries are exhausted, after exactly
\* maxRetries+1 invocations that all failed.
C1_AttemptsBounded ==
    /\ pc # "idle" =>
          /\ attempt \in 0..config.maxRetries
          /\ calls >= 1
          /\ calls <= config.maxRetries + 1
    /\ (Raised /\ ClassifiedTransient(thrown)) =>
          /\ attempt = config.maxRetries
          /\ calls = config.maxRetries + 1
          /\ failures = calls

C1_Witness ==
    /\ Raised
    /\ ClassifiedTransient(thrown)
    /\ config.maxRetries = 3
    /\ calls = 4

\* C2 as stated: a failure with status 429, 500 or 503, or with a message
\* matching the pattern, is not raised while retries remain, and a success that
\* follows k such failures is returned after k+1 invocations.
C2_Original ==
    /\ (Raised /\ (ClaimTransientStatus(thrown) \/ ClaimMatchingMessage(thrown))) =>
          attempt = config.maxRetries
    /\ pc = "returned" =>
          /\ result = [kind |-> "value", code |-> NoText, message |-> fnValue,
                       statusCode |-> NoStatus]
          /\ calls = failures + 1
          /\ failures <= config.maxRetries

\* C2 amended: the same for a failure whose status is not 400, 401, 403 or 404
\* and that has status 429, 500 or 503 or a message matching the pattern.
C2_TransientThenSuccess ==
    /\ (Raised /\ ~ClaimPermanent(thrown)
          /\ (ClaimTransientStatus(thrown) \/ ClaimMatchingMessage(thrown))) =>
          attempt = config.maxRetries
    /\ pc = "returned" =>
          /\ result = [kind |-> "value", code |-> NoText, message |-> fnValue,
                       statusCode |-> NoStatus]
          /\ calls = failures + 1
          /\ failures <= config.maxRetries

C2_Witness ==
    /\ pc = "returned"
    /\ config = DEFAULT_RETRY_CONFIG
    /\ thrown = [NoFailure EXCEPT !.kind = "object", !.code = 429]
    /\ failures = 3
    /\ calls = 4
    /\ WaitMs = <<1000, 2000, 4000>>
    /\ result.message = "success"

\* C3: after a failure whose status is 400, 401, 403 or 404 the call has raised:
\* no wait follows the failure and the operation is not invoked again.
C3_PermanentRaisesAtOnce ==
    (HasFailed /\ ClaimPermanent(thrown)) =>
        /\ pc = "raised"
        /\ calls = failures
        /\ Len(waits) = failures - 1

C3_Witness ==
    /\ Raised
    /\ ClaimPermanent(thrown)
    /\ attempt = 1
    /\ config.maxRetries = 3
    /\ thrown.message = "Request timeout"

\* C4: the failure raised for a permanent failure carries the status of the
\* raw failure, whichever of statusCode, status, code holds it.
C4_StatusPreserved ==
    (Raised /\ ClaimPermanent(thrown)) => result.statusCode = ClaimStatus(thrown)

\* C5: the failure raised when retries are exhausted or the failure is not
\* transient carries the message and the status of the last failure, with the
\* defaults only where that failure has none.
C5_LastFailureCarried ==
    (Raised /\ ~ClaimPermanent(thrown)) =>
        /\ result.message =
              IF thrown.message # "" THEN thrown.message ELSE "Gemini API request failed"
        /\ result.statusCode =
              IF ClaimStatus(thrown) # 0 THEN ClaimStatus(thrown) ELSE 500

\* C6: the first attempt runs with no wait and, when no failure carries a hint,
\* the i-th wait is min(initialDelay * backoffMultiplier^(i-1), maxDelay), at
\* most maxDelay, and the waits do not decrease when backoffMultiplier >= 1.
C6_Backoff ==
    /\ pc = "calling" => Len(waits) = calls - 1
    /\ pc = "sleeping" => waitTime = waits[Len(waits)].ms
    /\ NoHints =>
          /\ \A i \in 1..Len(waits) :
                /\ waits[i].ms = ClaimBackoff(i)
                /\ waits[i].ms <= config.maxDelay
          /\ config.backoffMultiplier >= 1 =>
                \A i \in 2..Len(waits) : waits[i - 1].ms <= waits[i].ms

C6_Witness ==
    /\ NoHints
    /\ config.maxDelay = 3000
    /\ config.backoffMultiplier = 2
    /\ WaitMs = <<1000, 2000, 3000>>

\* C7: a wait that follows a failure with a retry-after hint of h seconds is
\* h * 1000 ms, and the wait after it, when its failure has no hint, is the one
\* computed for its position, as if no hint had been given.
C7_HintOverridesOnce ==
    \A i \in 1..Len(waits) :
        /\ waits[i].hint # NoHeader =>
              waits[i].ms = ClaimHintSeconds(waits[i].hint) * 1000
        /\ (i > 1 /\ waits[i - 1].hint # NoHeader /\ waits[i].hint = NoHeader) =>
              waits[i].ms = ClaimBackoff(i)

C7_Witness ==
    /\ config = DEFAULT_RETRY_CONFIG
    /\ Len(waits) = 3
    /\ waits[1].hint = NoHeader
    /\ waits[2].hint = <<"5">>
    /\ waits[3].hint = NoHeader
    /\ WaitMs = <<1000, 5000, 4000>>

\* C8 as stated: a failure with no recognised status and no matching message
\* ends the call at that invocation.
C8_Original ==
    (HasFailed /\ ~ClaimPermanent(thrown) /\ ~ClaimTransientStatus(thrown)
        /\ ~ClaimMatchingMessage(thrown)) =>
        pc = "raised"

\* C8 amended: a failure with no recognised status, no matching message and,
\* when it has no message, no matching name ends the call at that invocation,
\* whatever came before, and the failure raised carries its message.
C8_UnclassifiedNotRetried ==
    (HasFailed /\ ~ClaimPermanent(thrown) /\ ~ClassifiedTransient(thrown)) =>
        /\ pc = "raised"
        /\ calls = failures
        /\ Len(waits) = failures - 1
        /\ result.kind = "ApplicationError"
        /\ result.message =
              IF thrown.message # "" THEN thrown.message ELSE "Gemini API request failed"

C8_Witness ==
    /\ Raised
    /\ ~ClaimPermanent(thrown)
    /\ ~ClassifiedTransient(thrown)
    /\ failures = 2
    /\ config.maxRetries = 3
    /\ result.message = "Bad request"

\* C9: a call that has ended has returned the value of a successful invocation
\* or raised one ApplicationError with code API_ERROR, whatever the operation
\* failed with.
C9_NormalizedFailure ==
    /\ pc = "returned" => result.kind = "value" /\ result.message = fnValue
    /\ pc = "raised" => result.kind = "ApplicationError" /\ result.code = "API_ERROR"

StoredKeys(store) == {store[i].key : i \in 1..Len(store)}

KeySeq(store) == [i \in 1..Len(store) |-> store[i].key]

\* a step of set: the only operation that leaves lastOp.op = "set" without
\* moving the clock
SetStep == lastOp'.op = "set" /\ now' = now /\ entries' # entries

\* C11: a set of a key that is not stored, into a cache that holds maxEntries
\* entries, drops exactly one entry, the least recently used one, keeps the
\* others in their order and stores the new key as the most recently used; so
\* k1..k(n+1) set in order with no reads leave k1 absent and k2..k(n+1) stored.
C11_EvictsLeastRecentlyUsed ==
    [][(SetStep /\ Len(entries) = cacheMax
          /\ entries'[Len(entries')].key \notin StoredKeys(entries)) =>
          /\ Len(entries') = cacheMax
          /\ StoredKeys(entries) \ StoredKeys(entries') = {entries[1].key}
          /\ \A i \in 1..(cacheMax - 1) : entries'[i] = entries[i + 1]
          /\ lastOp'.evicted = entries[1].key]_vars

C11_Witness ==
    /\ lastOp.op = "set"
    /\ lastOp.evicted = "k1"
    /\ cacheMax = 2
    /\ KeySeq(entries) = <<"k2", "k3">>
    /\ hits + misses = 0
    /\ now = 0

GetFoundLive ==
    \E i \in 1..Len(entries) :
        /\ now <= entries[i].expires
        /\ lastOp'.value = entries[i].value
        /\ entries' = Append(RemoveAt(entries, i), entries[i])

\* the get was for a key that is not stored, or whose entry has expired and is
\* dropped
GetFoundNone ==
    \/ entries' = entries /\ StoredKeys(entries) # Keys
    \/ \E i \in 1..Len(entries) :
           now > entries[i].expires /\ entries' = RemoveAt(entries, i)

\* C13: a get adds one to hits when the key is stored and not expired and one
\* to misses otherwise, and leaves the other counter; clear and resetStats zero
\* both and no other operation changes them, so hits + misses counts the gets
\* since the last clear or resetStats; the hitRate of getStats is
\* hits / (hits + misses), and 0 when there was no get.
C13_HitMissAccounting ==
    /\ [][IF hits' + misses' > hits + misses
          THEN /\ lastOp'.op = "get"
               /\ \/ lastOp'.found /\ GetFoundLive
                        /\ hits' = hits + 1 /\ misses' = misses
                  \/ ~lastOp'.found /\ GetFoundNone
                        /\ misses' = misses + 1 /\ hits' = hits
          ELSE /\ lastOp'.op # "get" \/ lastOp' = lastOp
               /\ \/ hits' = hits /\ misses' = misses
                  \/ lastOp'.op \in {"clear", "resetStats"} /\ hits' = 0 /\ misses' = 0]_vars
    /\ [](getStats.hitRate =
             IF hits + misses = 0 THEN <<0, 1>> ELSE <<hits, hits + misses>>)

\* two gets since the statistics were reset: a miss on an entry that had
\* expired, then a hit; hitRate 1/2
C13_Witness ==
    /\ lastOp.op = "get"
    /\ lastOp.found
    /\ hits = 1
    /\ misses = 1
    /\ getStats.hitRate = <<1, 2>>
    /\ now > 0

\* C14: a has or a getStats, for a stored, an absent or an expired key alike,
\* leaves hits, misses and the stored entries, their values and their order as
\* they were.
C14_HasAndStatsReadOnly ==
    [][(lastOp'.op \in {"has", "getStats"} /\ now' = now) =>
          /\ hits' = hits
          /\ misses' = misses
          /\ entries' = entries
          /\ getStats' = getStats]_vars

\* has has answered false while an expired entry is still stored, after a hit
\* and a miss were counted
C14_Witness ==
    /\ lastOp = Returned("has", FALSE, NoText)
    /\ hits = 1
    /\ misses = 1
    /\ Len(entries) = 2
    /\ \E i \in 1..Len(entries) : isStale(entries[i])
    /\ \E i \in 1..Len(entries) : ~isStale(entries[i])

\* C15: clear leaves size 0, every key absent for has and get, and hits and
\* misses 0; resetStats leaves hits and misses 0 and the stored entries, their
\* values and the size as they were.
C15_ClearAndResetStats ==
    [][/\ (lastOp'.op = "clear" /\ now' = now) =>
             /\ getStats'.size = 0
             /\ \A key \in Keys : ~lruHas(key)' /\ lruGet(key)' = NoText
             /\ hits' = 0
             /\ misses' = 0
       /\ (lastOp'.op = "resetStats" /\ now' = now) =>
             /\ hits' = 0
             /\ misses' = 0
             /\ entries' = entries
             /\ getStats'.size = getStats.size]_vars

\* resetStats has run on a full cache of two entries, one of them expired
C15_Witness ==
    /\ lastOp.op = "resetStats"
    /\ hits = 0
    /\ misses = 0
    /\ cacheMax = 2
    /\ getStats.size = 2
    /\ \E i \in 1..Len(entries) : isStale(entries[i])

\* the arguments of a call of generateKey
KeyArgs(c) == <<c.phrase, c.actionType, c.fullPhrase>>

\* C16: two calls of generateKey with the same phrase, actionType and
\* fullPhrase give the same key, and two calls that differ in any of the three,
\* an absent fullPhrase differing from a given one, give different keys.
C16_KeyInjective ==
    \A i, j \in 1..Len(keyCalls) :
        (KeyArgs(keyCalls[i]) = KeyArgs(keyCalls[j])) <=> (keyCalls[i].key = keyCalls[j].key)

\* ---- the claims' own reading of the handler ----

\* the key of a request: its phrase, action and fullPhrase
ClaimKey(request) == generateKey(request.phrase, request.action, request.fullPhrase)

\* the stored entries of a key that have not expired
LiveEntries(key) ==
    {i \in 1..Len(entries) : entries[i].key = key /\ now <= entries[i].expires}

\* a step in which a request reaches the cache
Arrives == hits' + misses' = hits + misses + 1

\* a step in which analyzeContent is called for the request
CallsUpstream(pending) ==
    /\ inflight' = inflight (+) SetToBag({pending})
    /\ upstreamCalls' = upstreamCalls + 1

\* a step in which the request is answered from the cache with no upstream call
ServedFromCache(request) ==
    /\ lastReply' # <<>>
    /\ lastReply' = Reply(request, "cache", lastReply'[1].body, NoResult)
    /\ inflight' = inflight
    /\ upstreamCalls' = upstreamCalls

\* a step in which the upstream call of a request in flight succeeds
Succeeds(pending) ==
    /\ BagIn(pending, inflight)
    /\ inflight' = inflight (-) SetToBag({pending})
    /\ lastReply' # <<>>
    /\ lastReply'[1].from = "upstream"

\* C17: a request whose key has a live entry is answered with the value of
\* that entry and calls the upstream zero times; a request whose key has none
\* calls the upstream exactly once and, when the call succeeds, its result is
\* stored under the key.
C17_CacheBeforeUpstream ==
    [][/\ Arrives =>
             \E request \in ValidRequests :
                 IF LiveEntries(ClaimKey(request)) # {}
                 THEN /\ ServedFromCache(request)
                      /\ \E i \in LiveEntries(ClaimKey(request)) :
                             lastReply'[1].body = entries[i].value
                 ELSE \E pending \in BagToSet(inflight') :
                         /\ pending.request = request
                         /\ CallsUpstream(pending)
       /\ \A pending \in BagToSet(inflight) :
             Succeeds(pending) =>
                 \E i \in 1..Len(entries') :
                     /\ entries'[i].key = ClaimKey(pending.request)
                     /\ entries'[i].value = lastReply'[1].body
                     /\ now < entries'[i].expires]_vars

\* a step in which the upstream call of a request in flight fails
Fails(pending) ==
    /\ BagIn(pending, inflight)
    /\ inflight' = inflight (-) SetToBag({pending})
    /\ lastReply' # <<>>
    /\ lastReply'[1].from = "failed"

StoredEntries(store) == {store[i] : i \in 1..Len(store)}

\* C18: an entry enters the cache only when an upstream call succeeds, under
\* the key of that request and with the result of that call; a request whose
\* upstream call fails leaves the cache as it was, so no entry holds an error.
C18_FailuresNotCached ==
    [][/\ \A e \in StoredEntries(entries') \ StoredEntries(entries) :
             \E pending \in BagToSet(inflight) :
                 /\ Succeeds(pending)
                 /\ e.key = ClaimKey(pending.request)
                 /\ e.value = lastReply'[1].body
                 /\ e.value \in AnalysisResults
       /\ \A pending \in BagToSet(inflight) :
             Fails(pending) =>
                 /\ entries' = entries
                 /\ lastReply'[1].error.kind = "ApplicationError"
                 /\ LiveEntries(ClaimKey(pending.request))' = LiveEntries(ClaimKey(pending.request))]_vars

\* a request has failed upstream with nothing stored, and a request identical
\* to it has missed and is awaiting its own upstream call
C18_Witness ==
    /\ lastReply # <<>>
    /\ lastReply[1].from = "failed"
    /\ lastReply[1].error.code = "API_QUOTA_EXCEEDED"
    /\ entries = <<>>
    /\ misses = 2
    /\ upstreamCalls = 2
    /\ \E pending \in BagToSet(inflight) :
           pending.request = lastReply[1].request /\ pending.cachedResult = NoText

\* two requests that differ at most in the image
SameButImage(r1, r2) ==
    r1.phrase = r2.phrase /\ r1.action = r2.action /\ r1.fullPhrase = r2.fullPhrase

\* the step is the arrival of this request: it is answered from the cache or
\* goes on to the upstream
ArrivalOf(request) ==
    /\ Arrives
    /\ \/ ServedFromCache(request)
       \/ \E pending \in BagToSet(inflight') :
              pending.request = request /\ CallsUpstream(pending)

\* C19: requests that differ at most in the image have the same key, and a
\* request that arrives while the entry stored for such a request is live is
\* served from it, with or without an image of its own, with no upstream call.
C19_KeyIgnoresImage ==
    [][/\ \A pending \in BagToSet(inflight'), r \in ValidRequests :
             SameButImage(pending.request, r) => pending.cacheKey = ClaimKey(r)
       /\ \A request, earlier \in ValidRequests :
             (/\ ArrivalOf(request)
              /\ SameButImage(request, earlier)
              /\ LiveEntries(ClaimKey(earlier)) # {}) =>
                 /\ ServedFromCache(request)
                 /\ \E i \in LiveEntries(ClaimKey(earlier)) :
                        lastReply'[1].body = entries[i].value]_vars

\* the requests in flight for a key
InFlightFor(key) ==
    LET same == {pending \in BagToSet(inflight) : pending.cacheKey = key}
    IN  BagCardinality([pending \in same |-> CopiesIn(pending, inflight)])

\* C20: a request that arrives for a key with no live entry records a miss, and
\* every miss recorded comes with an upstream call of its own and one more
\* request in flight for the key, however many are in flight for it already;
\* each request in flight stores its own result when its call succeeds.
C20_NoCoalescing ==
    [][/\ \A request \in ValidRequests :
             (ArrivalOf(request) /\ LiveEntries(ClaimKey(request)) = {}) =>
                 /\ misses' = misses + 1
                 /\ hits' = hits
       /\ misses' = misses + 1 =>
             \E pending \in BagToSet(inflight') :
                 /\ CallsUpstream(pending)
                 /\ pending.cachedResult = NoText
                 /\ LiveEntries(pending.cacheKey) = {}
                 /\ InFlightFor(pending.cacheKey)' = InFlightFor(pending.cacheKey) + 1
       /\ \A pending \in BagToSet(inflight) :
             Succeeds(pending) =>
                 /\ entries'[Len(entries')].key = pending.cacheKey
                 /\ entries'[Len(entries')].value = lastReply'[1].body
                 /\ entries'[Len(entries')].expires = now + cacheTtl
                 /\ InFlightFor(pending.cacheKey)' = InFlightFor(pending.cacheKey) - 1]_vars

\* two requests for one key are in flight, each after its own miss and with its
\* own upstream call, and nothing is stored yet
C20_Witness ==
    /\ \E pending \in BagToSet(inflight) : InFlightFor(pending.cacheKey) = 2
    /\ misses = 2
    /\ hits = 0
    /\ upstreamCalls = 2
    /\ entries = <<>>

\* ---- the claims' own reading of the accessors ----

\* the accesses made to an accessor, those in which the constructor threw,
\* and those that returned a value
AccessesOf(a) == {i \in 1..Len(accessLog) : accessLog[i].accessor = a}
ThrewOf(a) == {i \in AccessesOf(a) : accessLog[i].threw}
ReturnedOf(a) == AccessesOf(a) \ ThrewOf(a)

C22_NullNotMemoized ==
    \A a \in Accessors :
        (factory[a].returns = "null" /\ ~factory[a].mayThrow) =>
            /\ factoryCalls[a] = Cardinality(AccessesOf(a))
            /\ \A i \in AccessesOf(a) : accessLog[i].value.type = "null"

\* ---- the claims' own reading of the classifier ----

\* the message of a raw failure mentions one of the given texts
ClaimMentions(e, texts) ==
    e.kind \notin {"null", "undefined"} /\ \E i \in 1..Len(e.message) : e.message[i] \in texts

\* the rules in their order
ClaimRules == <<"authentication", "quota", "content filtering", "network", "timeout", "generic">>

ClaimMatches(e, rule) ==
    CASE rule = "authentication" ->
             e.codeNumber = 401 \/ ClaimMentions(e, {"API key", "INVALID_ARGUMENT"})
      [] rule = "quota" -> e.codeNumber = 429 \/ ClaimMentions(e, {"Quota", "Rate limit"})
      [] rule = "content filtering" ->
             ClaimMentions(e, {"content"}) /\ ClaimMentions(e, {"filter"})
      [] rule = "network" -> e.code \in {"ECONNREFUSED", "ENOTFOUND"}
      [] rule = "timeout" -> e.code = "ETIMEDOUT" \/ ClaimMentions(e, {"timeout"})
      [] rule = "generic" -> TRUE

\* the earliest rule a raw failure matches
ClaimCategory(e) ==
    ClaimRules[CHOOSE i \in 1..Len(ClaimRules) :
        /\ ClaimMatches(e, ClaimRules[i])
        /\ \A j \in 1..(i - 1) : ~ClaimMatches(e, ClaimRules[j])]

\* the table of the categories: the code and the status of each
ClaimTable ==
    [category \in {ClaimRules[i] : i \in 1..Len(ClaimRules)} |->
        CASE category = "authentication" -> <<"API_UNAVAILABLE", 503>>
          [] category = "quota" -> <<"API_QUOTA_EXCEEDED", 503>>
          [] category = "content filtering" -> <<"CONTENT_FILTERED", 400>>
          [] category = "network" -> <<"API_UNAVAILABLE", 503>>
          [] category = "timeout" -> <<"TIMEOUT", 504>>
          [] category = "generic" -> <<"API_ERROR", 500>>]

\* the message template of a category, and of the context for two of them
ClaimTemplate(category, context) ==
    CASE category = "authentication" ->
             "Service temporarily unavailable. Please contact support."
      [] category = "quota" ->
             "Service temporarily unavailable due to high demand. Please try again later."
      [] category = "content filtering" ->
             "Unable to process this content. Please try different text."
      [] category = "network" -> "Unable to connect to analysis service. Please try again."
      [] category = "timeout" /\ context = "identify phrase" ->
             "Request timed out. Please try again with a smaller image or selection."
      [] category = "timeout" /\ context = "identify phrases" ->
             "Request timed out. Please try again with a smaller image or fewer phrases."
      [] category = "timeout" /\ context = "analyze" -> "Request timed out. Please try again."
      [] category = "generic" /\ context = "identify phrase" ->
             "Failed to identify phrase from screenshot"
      [] category = "generic" /\ context = "identify phrases" ->
             "Failed to identify phrases from screenshot"
      [] category = "generic" /\ context = "analyze" -> "Failed to analyze phrase"

\* the categories an output can belong to, read off its code and message
OutputCategories(output) ==
    {category \in DOMAIN ClaimTable :
        /\ ClaimTable[category][1] = output.code
        /\ \E context \in ErrorContexts : ClaimTemplate(category, context) = output.message}

\* the failures classified
Classified == {classifyCalls[i] : i \in 1..Len(classifyCalls)}

\* C23: the rules apply in the order authentication, quota, content filtering,
\* network, timeout, generic, and the first that matches decides: every
\* classified failure gets the category of the earliest rule it matches, so an
\* 'API key' message with code ECONNREFUSED is an authentication failure and
\* a 'quota' message with code ETIMEDOUT is quota exceeded.
C23_FirstMatchWins ==
    \A c \in Classified :
        /\ OutputCategories(c.output) = {ClaimCategory(c.error)}
        /\ (c.error.code = "ECONNREFUSED" /\ ClaimMentions(c.error, {"API key"})) =>
               /\ c.output.code = "API_UNAVAILABLE"
               /\ c.output.message = "Service temporarily unavailable. Please contact support."
        /\ (c.error.code = "ETIMEDOUT" /\ ClaimMentions(c.error, {"Quota"})) =>
               c.output.code = "API_QUOTA_EXCEEDED"

\* both failures of the claim were classified, the first as authentication
\* (not network), the second as quota exceeded (not timeout)
C23_Witness ==
    /\ Len(classifyCalls) = 2
    /\ classifyCalls[1].error = Thrown("object", NoStatus, "ECONNREFUSED", <<"API key", "refused">>)
    /\ classifyCalls[1].output.message = "Service temporarily unavailable. Please contact support."
    /\ classifyCalls[2].error = Thrown("object", NoStatus, "ETIMEDOUT", <<"timeout", "Quota">>)
    /\ classifyCalls[2].output.code = "API_QUOTA_EXCEEDED"

C25_RevealsOnlyCategory ==
    /\ \A c, d \in Classified :
           ClaimCategory(c.error) = ClaimCategory(d.error) =>
               /\ c.output.code = d.output.code
               /\ c.output.statusCode = d.output.statusCode
               /\ c.output.message = d.output.message
    /\ \A c \in Classified :
           IF ClaimCategory(c.error) = "generic" /\ options.isDevelopment = {TRUE}
           THEN c.output.details = {[originalError |-> c.error.message]}
           ELSE c.output.details = {}

\* in development, two different failures of the generic category were
\* classified alike, the first carrying its raw message in details
C25_Witness ==
    /\ Len(classifyCalls) = 2
    /\ options.isDevelopment = {TRUE}
    /\ classifyCalls[1].error = Thrown("object", NoStatus, NoText, <<"Detailed">>)
    /\ classifyCalls[1].output.details = {[originalError |-> <<"Detailed">>]}
    /\ classifyCalls[2].error = Thrown("object", 500, NoText, <<"content">>)
    /\ classifyCalls[2].output.message = classifyCalls[1].output.message
    /\ classifyCalls[2].output.code = "API_ERROR"

\* ---- the claims' own reading of validation ----

\* white space only
ClaimBlank(text) == \A i \in 1..Len(text) : text[i] = " "

\* the text without the white space around it
ClaimTrimmed(text) ==
    IF ClaimBlank(text) THEN <<>>
    ELSE LET first == CHOOSE i \in 1..Len(text) :
                          text[i] # " " /\ \A j \in 1..(i - 1) : text[j] = " "
             last == CHOOSE i \in 1..Len(text) :
                         text[i] # " " /\ \A j \in (i + 1)..Len(text) : text[j] = " "
         IN  SubSeq(text, first, last)

\* a request that fails input validation: the phrase is empty after trimming,
\* the fullPhrase is the phrase, or the image is malformed, not PNG or too large
ClaimInvalid(request) ==
    \/ ClaimBlank(request.phrase)
    \/ /\ request.fullPhrase \notin {Undefined, Some(<<>>)}
       /\ ClaimTrimmed(TheText(request.fullPhrase)) = ClaimTrimmed(request.phrase)
    \/ request.image \in {Some(MalformedImage), Some(TextImage), Some(LargePngImage)}

\* C28: a request that fails input validation never reaches the cache or the
\* upstream: it is never in flight, and the step that rejects it (with status
\* 400 or 413) leaves the cache entries, the hit and miss counters, the
\* requests in flight and the count of upstream calls as they were, whatever
\* the cache holds.
C28_InvalidRejectedFirst ==
    [][/\ \A pending \in BagToSet(inflight') : ~ClaimInvalid(pending.request)
       /\ (lastReply' # lastReply /\ ClaimInvalid(lastReply'[1].request)) =>
              /\ lastReply'[1].from = "rejected"
              /\ lastReply'[1].error.statusCode \in {400, 413}
              /\ UNCHANGED <<entries, hits, misses, inflight, upstreamCalls>>]_vars

\* a request with a malformed image was rejected while the result of the same
\* phrase and action was cached and live, and the counters show the one
\* request that stored it
C28_Witness ==
    /\ lastReply # <<>>
    /\ lastReply[1].request = Request(<<"K">>, <<"translate">>, Undefined, Some(MalformedImage))
    /\ lastReply[1].from = "rejected"
    /\ LiveEntries(ClaimKey(lastReply[1].request)) # {}
    /\ hits = 0
    /\ misses = 1
    /\ upstreamCalls = 1

\* ---- the claims' own reading of the routes ----

\* the text of a raw upstream failure as the classification rules read it
ClaimFragments(message) ==
    CASE message = NoText -> NoMessage
      [] message = "quota exceeded" -> <<"Quota", "exceeded">>
      [] message = "Request timeout" -> <<"Request", "timeout">>
      [] OTHER -> <<message>>

\* a raw upstream failure as the classification rules read it
ClaimRaw(e) ==
    IF e.kind = "nullish" THEN Thrown("undefined", NoStatus, NoText, NoMessage)
    ELSE Thrown("object", e.code, NoText, ClaimFragments(e.message))

\* a step in which the upstream call of the request in progress has failed for
\* good and the caller is answered
TerminalFailure == route # "none" /\ route' = "none" /\ pc = "raised"

\* C26: when the upstream call of a handler fails for good (retries exhausted
\* or a permanent failure), the classifier runs exactly once for the request
\* and the response carries the code and the status that the classification
\* rules assign to the raw upstream failure.
C26_ClassifiedOnce ==
    [][TerminalFailure =>
           /\ classifierRuns' = 1
           /\ <<response'.code, response'.statusCode>> =
                  ClaimTable[ClaimCategory(ClaimRaw(thrown))]]_vars

\* the message templates of the classifier
ClaimTemplates ==
    {ClaimTemplate(category, context) : category \in DOMAIN ClaimTable, context \in ErrorContexts}

\* C27: in production, the response to a terminal upstream failure has a
\* message that is one of the fixed templates, not the text of the raw
\* failure, and has no details; details appear only in development.
C27_NoRawTextInProduction ==
    [][TerminalFailure =>
           /\ nodeEnv = "production" =>
                  /\ response'.message \in ClaimTemplates
                  /\ thrown.message # NoText => response'.message # thrown.message
           /\ response'.details # {} => nodeEnv = "development"]_vars

IdentifyContexts == {"identify phrase", "identify phrases"}

\* a step in which a request of the route is received
Received(context) ==
    /\ route = "none"
    /\ \/ route' = context
       \/ served' = served + 1 /\ response'.route = context

\* C29: an identification request, from its receipt to its response,
\* successful or failed, leaves the cache entries and the hit and miss counters
\* as they were, and every identification request received calls the service
\* and through it the upstream, whatever was answered before.
C29_IdentifyBypassesCache ==
    [][/\ \A context \in IdentifyContexts :
              Received(context) =>
                  /\ UNCHANGED <<entries, hits, misses>>
                  /\ route' = context
                  /\ serviceCalls' = serviceCalls + 1
                  /\ pc' = "calling"
                  /\ calls' = 1
       /\ route \in IdentifyContexts => UNCHANGED <<entries, hits, misses>>]_vars

\* an identify-phrase request was answered with a result and a second one is
\* calling the upstream; the cache has never been read or written
C29_Witness ==
    /\ served = 1
    /\ response.route = "identify phrase"
    /\ response.statusCode = 200
    /\ route = "identify phrase"
    /\ pc = "calling"
    /\ serviceCalls = 2
    /\ entries = <<>>
    /\ hits + misses = 0

\* ---- the claims' own reading of calls in progress together ----

\* the retry state of a call
ClaimRetryState(c) ==
    <<callState[c].attempt, callState[c].delay, callState[c].lastError>>

\* C30: while a call waits in a backoff, every other call can take its next
\* step: start, have its upstream call answered, and so complete; and the
\* attempt number, the delay and the last failure of a call are its own: the
\* delay is the initial delay grown once per wait of that call, and a step of
\* one call leaves the retry state of every other call as it was.
C30_BackoffDoesNotBlock ==
    [][/\ \A c, d \in CallIds :
              (c # d /\ callState[c].pc = "sleeping") =>
                  /\ callState[d].pc = "idle" => ENABLED CallStarts(d)
                  /\ callState[d].pc = "calling" =>
                         /\ \A v \in Values : ENABLED CallResolves(d, v)
                         /\ \A error \in ConcurrentFailures : ENABLED CallRejects(d, error)
       /\ \A c \in CallIds :
              callState[c].pc # "idle" =>
                  callState[c].delay =
                      DEFAULT_RETRY_CONFIG.initialDelay
                          * Pow(DEFAULT_RETRY_CONFIG.backoffMultiplier, callState[c].attempt)
       /\ \A c, d \in CallIds :
              (c # d /\ callState'[c] # callState[c]) =>
                  ClaimRetryState(d)' = ClaimRetryState(d)]_vars

\* a call started and returned while another call was, and still is, in its
\* first backoff
C30_Witness ==
    \E c, d \in CallIds :
        /\ c # d
        /\ callState[c].pc = "sleeping"
        /\ callState[c].attempt = 0
        /\ callState[d].pc = "returned"
        /\ callState[d].sleepingAtStart = {c}

\* C31: the status that classifies a failure is the first truthy one of
\* statusCode, status, code: a failure with that status in {400, 401, 403, 404}
\* ends the call at once, one with it in {429, 500, 503} is raised only when
\* retries are exhausted; so statusCode 429 with status 400 is retried, and a
\* status held by code alone classifies the failure.
C31_FirstTruthyStatus ==
    (HasFailed /\ thrown.kind = "object") =>
        LET s == IF thrown.statusCode # 0 THEN thrown.statusCode
                 ELSE IF thrown.status # 0 THEN thrown.status
                 ELSE thrown.code
        IN  /\ s \in {400, 401, 403, 404} => pc = "raised" /\ calls = failures
            /\ s \in {429, 500, 503} => (pc = "raised" => attempt = config.maxRetries)
            /\ (thrown.statusCode = 429 /\ thrown.status = 400) =>
                  (pc = "raised" => attempt = config.maxRetries)
            /\ (thrown.statusCode = 0 /\ thrown.status = 0 /\ thrown.code = 503) =>
                  (pc = "raised" => attempt = config.maxRetries)
            /\ (thrown.statusCode = 0 /\ thrown.status = 0 /\ thrown.code = 404) =>
                  pc = "raised"

C31_Witness ==
    /\ pc = "returned"
    /\ thrown.statusCode = 429
    /\ thrown.status = 400
    /\ thrown.message = "Bad request"
    /\ failures = 1
    /\ calls = 2
    /\ config.maxRetries = 3

\* ---- the claims' reading of a 502 raised by the wrapped operation ----

ClaimUpstream502 ==
    {"Gemini API returned empty response", "Invalid JSON response from Gemini API"}

C33_HintNotCapped ==
    \A i \in 1..Len(waits) :
        LET h == ClaimHintSeconds(waits[i].hint) IN
        /\ waits[i].hint = NoHeader => waits[i].ms <= config.maxDelay
        /\ (waits[i].hint # NoHeader /\ h * 1000 > config.maxDelay) =>
              /\ waits[i].ms = h * 1000
              /\ waits[i].ms > config.maxDelay
        /\ (i = Len(waits) /\ pc = "sleeping") => waitTime = waits[i].ms

C33_Witness ==
    /\ pc = "sleeping"
    /\ config.maxDelay = 3000
    /\ thrown.retryAfter = <<"5">>
    /\ waitTime = 5000
    /\ Len(waits) = 2
    /\ waits[1].ms <= 3000

\* a step in which the get of the handler counts a hit
CountsHit == hits' = hits + 1

\* C34: in the analyze handler, a step in which the cache's get counts a hit
\* makes no upstream call, leaves the requests in flight as they are and answers
\* with the value the cache returned, whatever value was stored.
C34_HitExcludesUpstream ==
    [][CountsHit =>
          /\ upstreamCalls' = upstreamCalls
          /\ inflight' = inflight
          /\ lastReply' # <<>>
          /\ lastReply'[1].from = "cache"
          /\ lastOp'.op = "get"
          /\ lastReply'[1].body = lastOp'.value]_vars

\* C35: for every raw failure and the same development flag, the rules written
\* inline in the analyze handler produce the code, status, message and details
\* that categorizeApiError produces with context 'analyze'.
C35_InlineAgrees ==
    options.context = "analyze" =>
        \A i \in 1..Len(classifyCalls) :
            LET inline == categorizeInline(classifyCalls[i].error, isDevelopmentOf(options))
                shared == classifyCalls[i].output
            IN  /\ inline.code = shared.code
                /\ inline.statusCode = shared.statusCode
                /\ inline.message = shared.message
                /\ inline.details = shared.details

ClearStep == lastOp.op # "clear" /\ lastOp'.op = "clear"

\* C37: clear() leaves the requests in flight as they are, and a request in
\* flight whose upstream call succeeds stores its result as the newest entry,
\* whether or not clear() was called since it recorded its miss; so the cache
\* can hold an entry while hits = misses = 0.
C37_ClearKeepsInFlight ==
    [][/\ ClearStep =>
             /\ inflight' = inflight
             /\ upstreamCalls' = upstreamCalls
             /\ entries' = <<>>
             /\ hits' = 0
             /\ misses' = 0
       /\ \A pending \in BagToSet(inflight) :
             Succeeds(pending) =>
                 /\ entries'[Len(entries')].key = pending.cacheKey
                 /\ entries'[Len(entries')].value = lastReply'[1].body
                 /\ hits' = hits
                 /\ misses' = misses]_vars

\* one request missed, clear() was called while it was in flight, and its
\* result was stored after that: an entry, no hit and no miss counted
C37_Witness ==
    /\ lastOp.op = "set"
    /\ Len(entries) = 1
    /\ entries[1].value = "v1"
    /\ hits = 0
    /\ misses = 0
    /\ upstreamCalls = 1
    /\ inflight = EmptyBag
    /\ lastReply # <<>>
    /\ lastReply[1].from = "upstream"

\* the expiry of each stored key
ExpiryOf(store) == {<<store[i].key, store[i].expires>> : i \in 1..Len(store)}

\* C38: a get that hits moves the entry it read to the most recently used
\* place, keeps the others in their order and changes no expiry, so the entry
\* is read only while its own expiry has not passed; a has changes neither the
\* order nor an expiry; and the entry a set evicts is the first in that order,
\* the one whose last set or hitting get is oldest.
C38_GetRenewsRecencyNotTtl ==
    [][/\ hits' = hits + 1 =>
             \E i \in 1..Len(entries) :
                 /\ now <= entries[i].expires
                 /\ KeySeq(entries') = Append(RemoveAt(KeySeq(entries), i), entries[i].key)
                 /\ ExpiryOf(entries') = ExpiryOf(entries)
       /\ (lastOp'.op = "has" /\ now' = now) =>
             /\ KeySeq(entries') = KeySeq(entries)
             /\ ExpiryOf(entries') = ExpiryOf(entries)
       /\ (SetStep /\ lastOp'.evicted # NoText) =>
             /\ lastOp'.evicted = KeySeq(entries)[1]
             /\ KeySeq(entries') = Append(Tail(KeySeq(entries)), entries'[Len(entries')].key)]_vars

\* an entry set first has been read twice, the second time at the last moment
\* of its life: it is the most recently used and still expires at its time
C38_Witness ==
    /\ lastOp.op = "get"
    /\ lastOp.found
    /\ hits = 2
    /\ cacheMax = 2
    /\ Len(entries) = 2
    /\ now > 0
    /\ entries[2].expires = now
    /\ entries[1].expires > now

\* the entries stored under a key
EntriesOf(store, key) == {i \in 1..Len(store) : store[i].key = key}

\* C39: the set of a successful upstream call on a key that is already stored,
\* in a full cache or not, leaves the number of entries and every other entry
\* as they were, evicts nothing, and leaves under the key one entry, the most
\* recently used, with the result of that call and a TTL that starts at that
\* moment; no key is ever stored twice, so of two requests that missed on one
\* key the cache holds the value of the one that completed last.
C39_SetOnStoredKeyReplaces ==
    /\ [][\A pending \in BagToSet(inflight) :
             (Succeeds(pending) /\ EntriesOf(entries, pending.cacheKey) # {}) =>
                 /\ Len(entries') = Len(entries)
                 /\ lastOp'.evicted = NoText
                 /\ \A i \in 1..Len(entries) :
                        entries[i].key # pending.cacheKey =>
                            \E j \in 1..Len(entries') : entries'[j] = entries[i]
                 /\ EntriesOf(entries', pending.cacheKey) = {Len(entries')}
                 /\ entries'[Len(entries')].value = lastReply'[1].body
                 /\ entries'[Len(entries')].expires = now + cacheTtl]_vars
    /\ [](\A key \in StoredKeys(entries) : Cardinality(EntriesOf(entries, key)) = 1)

\* three requests missed at time 0 and all upstream calls are over; the last
\* result was stored on a key already held by the full cache, nothing evicted
C39_Witness ==
    /\ lastOp.op = "set"
    /\ lastOp.evicted = NoText
    /\ cacheMax = 2
    /\ Len(entries) = 2
    /\ misses = 3
    /\ hits = 0
    /\ upstreamCalls = 3
    /\ inflight = EmptyBag
    /\ now = 0
    /\ lastReply # <<>>
    /\ lastReply[1].from = "upstream"
    /\ entries[2].key = ClaimKey(lastReply[1].request)
    /\ entries[2].value = "v2"

====
